---- MODULE Spec2Model ----
(***************************************************************************)
(* A model of urwid's ListBox (src/urwid/widget/listbox.py): the list      *)
(* walker, the viewport state (offset_rows, inset_fraction, pref_col and   *)
(* the two deferred requests), calculate_visible, the focus primitives     *)
(* shift_focus / change_focus, the four navigation key handlers, mouse     *)
(* presses and render's row accounting.                                    *)
(*                                                                         *)
(* Items are the widgets of the body.  An item is a record                 *)
(*   [rows |-> its height, sel |-> selectable(), cur |-> it has a cursor]  *)
(* and sits at the walker position index-1 (positions are 0-based, as in   *)
(* SimpleListWalker).  Heights do not depend on the width or on the focus  *)
(* flag.  A cursor item reports get_cursor_coords = (0, cursor[pos]) and   *)
(* accepts move_cursor_to_coords for the rows it has.                      *)
(***************************************************************************)
EXTENDS Integers, Sequences, FiniteSets, TLC

\* Bounds of the model.
MaxItems == 3
MaxItemRows == 2
MaxRows == 3

\* (None, None): what get_focus/get_next/get_prev return when there is no widget.
None == -1

VARIABLES
  body,                     \* ListBox._body: the walker's widgets
  wrap_around,              \* SimpleListWalker.wrap_around
  focus,                    \* SimpleListWalker.focus
  cursor,                   \* per position: the cursor row inside a cursor item
  offset_rows,              \* ListBox.offset_rows
  inset_fraction,           \* ListBox.inset_fraction
  pref_col,                 \* ListBox.pref_col
  set_focus_pending,        \* ListBox.set_focus_pending
  set_focus_valign_pending, \* ListBox.set_focus_valign_pending
  maxrow,                   \* the viewport height of size = (maxcol, maxrow)
  presses,                  \* the 'down' keys pressed so far in a traversal
  body_kind,                \* what the class of the body provides for scrolling
  rendered_size,            \* ListBox._rendered_size, its rows ((0, 0) at first)
  rows_max_cached,          \* ListBox._rows_max_cached
  body_id,                  \* which walker object ListBox._body is
  connected,                \* per walker object: how many times _invalidate
                            \* is connected to its "modified" signal
  shelved,                  \* the walker objects that are not the body
  started,                  \* Screen._started
  input_thread,             \* Screen._input_thread: a thread of threads, or None
  current_event_loop_handles, \* Screen._current_event_loop_handles
  input_timeout,            \* Screen._input_timeout: whether it holds an alarm
  threads,                  \* the ReadInputThread objects started so far
  watches,                  \* the event loop: the watch-file handles it holds
  handles_made,             \* the event loop: the handles it has handed out
  alarms,                   \* the event loop: how many alarms it holds
  console,                  \* the input records waiting in the console
  arrived,                  \* the input records the console has received
  socket,                   \* the bytes waiting in the input socket
  resize_pipe,              \* the bytes waiting in the resize pipe
  main_pc                   \* where the main thread is in unhook_event_loop

\* What the scroll queries keep and what the body setter keeps.
scroll_vars == <<body_kind, rendered_size, rows_max_cached>>
signal_vars == <<body_id, connected, shelved>>

\* What the Screen, its reader threads, the event loop and the console keep.
console_vars == <<started, input_thread, current_event_loop_handles,
                  input_timeout, threads, watches, handles_made, alarms,
                  console, arrived, socket, resize_pipe, main_pc>>

vars == <<body, wrap_around, focus, cursor, offset_rows, inset_fraction, pref_col,
          set_focus_pending, set_focus_valign_pending, maxrow, presses,
          scroll_vars, signal_vars, console_vars>>

--------------------------------------------------------------------------
\* The widgets (Item capability).

Widget(pos) == body[pos + 1]
Rows(pos) == Widget(pos).rows
Selectable(pos) == Widget(pos).sel
HasCursor(pos) == Widget(pos).cur

Max(a, b) == IF a >= b THEN a ELSE b
Min(a, b) == IF a <= b THEN a ELSE b

\* widget.move_cursor_to_coords((maxcol,), pref_col, row) of a cursor item:
\* accepted exactly for the rows the item has.
MoveCursorAccepts(pos, row) == 0 <= row /\ row < Rows(pos)

--------------------------------------------------------------------------
\* SimpleListWalker.

\* ListWalker.get_focus: (self[focus], focus), or (None, None) on IndexError.
GetFocus(s) == IF 0 <= s.focus /\ s.focus < Len(body) THEN s.focus ELSE None

\* SimpleListWalker.next_position inside ListWalker.get_next.
GetNext(pos) ==
  IF Len(body) - 1 <= pos
    THEN (IF wrap_around /\ Len(body) > 0 THEN 0 ELSE None)
    ELSE pos + 1

\* SimpleListWalker.prev_position inside ListWalker.get_prev.
GetPrev(pos) ==
  IF pos <= 0
    THEN (IF wrap_around /\ Len(body) > 0 THEN Len(body) - 1 ELSE None)
    ELSE pos - 1

\* A walker's set_focus that takes the nearest position instead of raising.
WalkerSetFocusClamped(s, position) ==
  IF body = <<>> THEN s
  ELSE [s EXCEPT !.focus = Max(0, Min(position, Len(body) - 1))]

\* SimpleListWalker.set_focus: IndexError unless 0 <= position < len(self).
WalkerSetFocus(s, position) ==
  IF ~(0 <= position /\ position < Len(body))
    THEN [s EXCEPT !.err = "IndexError"]
    ELSE [s EXCEPT !.focus = position]

--------------------------------------------------------------------------
\* A get_focus_offset_inset that reads offset_rows alone.
GetFocusOffsetInsetWhole(s) ==
  [err |-> "", offset_rows |-> s.offset_rows, inset_rows |-> 0]

\* ListBox.get_focus_offset_inset: (offset rows, inset rows) of the focus widget.
GetFocusOffsetInset(s) ==
  LET focus_rows == Rows(GetFocus(s))
      inum == s.inset_fraction[1]
      iden == s.inset_fraction[2]
      inset_rows == (focus_rows * inum) \div iden
  IN IF s.offset_rows # 0
       THEN [err |-> "", offset_rows |-> s.offset_rows, inset_rows |-> 0]
     ELSE IF inum < 0 \/ iden < 0 \/ inum >= iden
       THEN [err |-> "ListBoxError", offset_rows |-> 0, inset_rows |-> 0]
     ELSE IF inset_rows # 0 /\ inset_rows >= focus_rows
       THEN [err |-> "ListBoxError", offset_rows |-> 0, inset_rows |-> 0]
     ELSE [err |-> "", offset_rows |-> 0, inset_rows |-> inset_rows]

\* VisibleInfoFillItem(widget, position, rows); the widget is Widget(position).
FillItem(pos) == [position |-> pos, rows |-> Rows(pos)]

\* A cursor adjustment that leaves the pair as it is.
CursorAdjustNever(cy, offset, inset, mrow) ==
  [offset_rows |-> offset, inset_rows |-> inset]

\* calculate_visible, "adjust position so cursor remains visible": the
\* (offset_rows, inset_rows) pair after the cursor adjustment.
CursorAdjust(cy, offset, inset, mrow) ==
  LET effective_cy == cy + offset - inset
  IN IF effective_cy < 0
       THEN [offset_rows |-> offset, inset_rows |-> cy]
     ELSE IF effective_cy >= mrow
       THEN (IF mrow - cy - 1 < 0
               THEN [offset_rows |-> 0, inset_rows |-> -(mrow - cy - 1)]
               ELSE [offset_rows |-> mrow - cy - 1, inset_rows |-> inset])
     ELSE [offset_rows |-> offset, inset_rows |-> inset]

\* The while loops of calculate_visible never end once they have stepped
\* over as many widgets of 0 rows in a row as the body holds: the walker has
\* gone round a body that has no row to fill the viewport with.  idle counts
\* these steps, and the loop is left with hangs set in place of running on.
GoneRound(idle, rows) == rows = 0 /\ idle + 1 >= Len(body)

\* calculate_visible step 2: collect the widgets above the focus.
\* l = [pos, fill_lines, fill_above, top_pos, trim_top, offset_rows, idle, hangs]
RECURSIVE CollectAbove(_)
CollectAbove(l) ==
  IF ~(l.fill_lines > 0) THEN l
  ELSE LET prev == GetPrev(l.pos) IN
    IF prev = None
      THEN [l EXCEPT !.offset_rows = l.offset_rows - l.fill_lines]
    ELSE LET p_rows == Rows(prev)
             fa == IF p_rows # 0 THEN Append(l.fill_above, FillItem(prev))
                                 ELSE l.fill_above
         IN IF p_rows > l.fill_lines
              THEN [l EXCEPT !.pos = prev, !.top_pos = prev, !.fill_above = fa,
                             !.trim_top = p_rows - l.fill_lines]
            ELSE IF GoneRound(l.idle, p_rows) THEN [l EXCEPT !.hangs = TRUE]
              ELSE CollectAbove([l EXCEPT !.pos = prev, !.top_pos = prev,
                                          !.fill_above = fa,
                                          !.fill_lines = l.fill_lines - p_rows,
                                          !.idle = IF p_rows = 0 THEN l.idle + 1
                                                   ELSE 0])

\* A step 3 that collects nothing below the focus.
CollectBelowNothing(l) == l

\* calculate_visible step 3: collect the widgets below the focus.
\* l = [pos, fill_lines, fill_below, trim_bottom, idle, hangs]
RECURSIVE CollectBelow(_)
CollectBelow(l) ==
  IF ~(l.fill_lines > 0) THEN l
  ELSE LET next_pos == GetNext(l.pos) IN
    IF next_pos = None THEN l
    ELSE LET n_rows == Rows(next_pos)
             fb == IF n_rows # 0 THEN Append(l.fill_below, FillItem(next_pos))
                                 ELSE l.fill_below
         IN IF n_rows > l.fill_lines
              THEN [l EXCEPT !.pos = next_pos, !.fill_below = fb,
                             !.trim_bottom = n_rows - l.fill_lines,
                             !.fill_lines = l.fill_lines - n_rows]
            ELSE IF GoneRound(l.idle, n_rows) THEN [l EXCEPT !.hangs = TRUE]
              ELSE CollectBelow([l EXCEPT !.pos = next_pos, !.fill_below = fb,
                                          !.fill_lines = l.fill_lines - n_rows,
                                          !.idle = IF n_rows = 0 THEN l.idle + 1
                                                   ELSE 0])

\* calculate_visible step 4, the loop: fill from the top again.
\* l = [pos, fill_lines, fill_above, trim_top, offset_rows]
\* A step 4 that pulls nothing in from above.
FillTopAgainNever(l) == l

RECURSIVE FillTopAgain(_)
FillTopAgain(l) ==
  IF ~(l.fill_lines > 0) THEN l
  ELSE LET prev == GetPrev(l.pos) IN
    IF prev = None THEN l
    ELSE LET p_rows == Rows(prev)
             fa == Append(l.fill_above, FillItem(prev))
         IN IF p_rows > l.fill_lines
              THEN [l EXCEPT !.pos = prev, !.fill_above = fa,
                             !.trim_top = p_rows - l.fill_lines,
                             !.offset_rows = l.offset_rows + l.fill_lines]
              ELSE FillTopAgain([l EXCEPT !.pos = prev, !.fill_above = fa,
                                          !.fill_lines = l.fill_lines - p_rows,
                                          !.offset_rows = l.offset_rows + p_rows])

\* The (None, None, None) result of calculate_visible, and a raised error.
EmptyVisible(e) ==
  [err |-> e, empty |-> TRUE,
   middle |-> [offset |-> 0, focus_pos |-> None, focus_rows |-> 0, cursor |-> None],
   top |-> [trim |-> 0, fill |-> <<>>],
   bottom |-> [trim |-> 0, fill |-> <<>>]]

\* calculate_visible step 5: return the interesting bits.
CalculateVisibleStep5(focus_pos, cur, inset_rows, below, again) ==
  [err |-> "", empty |-> FALSE,
   middle |-> [offset |-> again.offset_rows - inset_rows,
               focus_pos |-> focus_pos, focus_rows |-> Rows(focus_pos),
               cursor |-> cur],
   top |-> [trim |-> again.trim_top, fill |-> again.fill_above],
   bottom |-> [trim |-> below.trim_bottom, fill |-> below.fill_below]]

\* calculate_visible step 4: fill from top again if necessary and possible.
CalculateVisibleStep4(focus_pos, cur, inset_rows, above, below, fill_lines) ==
  CalculateVisibleStep5(focus_pos, cur, inset_rows, below,
    FillTopAgain(
      IF fill_lines > 0 /\ above.trim_top > 0
        THEN (IF fill_lines <= above.trim_top
                THEN [pos |-> above.top_pos, fill_above |-> above.fill_above,
                      fill_lines |-> 0,
                      trim_top |-> above.trim_top - fill_lines,
                      offset_rows |-> above.offset_rows + fill_lines]
                ELSE [pos |-> above.top_pos, fill_above |-> above.fill_above,
                      fill_lines |-> fill_lines - above.trim_top,
                      trim_top |-> 0,
                      offset_rows |-> above.offset_rows + above.trim_top])
        ELSE [pos |-> above.top_pos, fill_above |-> above.fill_above,
              fill_lines |-> fill_lines, trim_top |-> above.trim_top,
              offset_rows |-> above.offset_rows]))

\* calculate_visible step 3: the widgets below the focus, collected.
CalculateVisibleStep3(focus_pos, cur, inset_rows, above, below) ==
  IF below.hangs THEN EmptyVisible("never returns")
  ELSE CalculateVisibleStep4(focus_pos, cur, inset_rows, above, below,
                             Max(0, below.fill_lines))

\* calculate_visible step 2: the widgets above the focus, collected.
CalculateVisibleStep2(mrow, focus_pos, cur, inset_rows, above) ==
  IF above.hangs THEN EmptyVisible("never returns")
  ELSE
  CalculateVisibleStep3(focus_pos, cur, inset_rows, above,
    CollectBelow([pos |-> focus_pos,
                  fill_lines |-> mrow - Rows(focus_pos) - above.offset_rows
                                 + inset_rows,
                  fill_below |-> <<>>,
                  trim_bottom |-> Max(Rows(focus_pos) + above.offset_rows
                                      - inset_rows - mrow, 0),
                  idle |-> 0, hangs |-> FALSE]))

\* calculate_visible step 1, after the cursor adjustment adj.
CalculateVisibleAdjusted(mrow, focus_pos, cur, adj) ==
  CalculateVisibleStep2(mrow, focus_pos, cur, adj.inset_rows,
    CollectAbove([pos |-> focus_pos, fill_lines |-> adj.offset_rows,
                  fill_above |-> <<>>, top_pos |-> focus_pos,
                  trim_top |-> adj.inset_rows,
                  offset_rows |-> adj.offset_rows,
                  idle |-> 0, hangs |-> FALSE]))

\* calculate_visible step 1 with the cursor coordinates of the focus widget.
CalculateVisibleCursor(mrow, focus_pos, offset, inset, cur) ==
  CalculateVisibleAdjusted(mrow, focus_pos, cur,
    IF cur # None THEN CursorAdjust(cur, offset, inset, mrow)
    ELSE [offset_rows |-> offset, inset_rows |-> inset])

\* A step 1 that takes the stored offset as it is.
CalculateVisibleStep1Unclamped(s, mrow, f, focus_pos, oi) ==
  IF oi.err # "" THEN EmptyVisible(oi.err)
  ELSE CalculateVisibleCursor(mrow, focus_pos, oi.offset_rows, oi.inset_rows,
         IF mrow # 0 /\ Selectable(focus_pos) /\ f /\ HasCursor(focus_pos)
           THEN s.cursor[focus_pos] ELSE None)

\* calculate_visible step 1: start with the focus widget.  oi is what
\* get_focus_offset_inset returned.
CalculateVisibleStep1(s, mrow, f, focus_pos, oi) ==
  IF oi.err # "" THEN EmptyVisible(oi.err)
  ELSE CalculateVisibleCursor(mrow, focus_pos,
         IF mrow # 0 /\ oi.offset_rows >= mrow THEN mrow - 1 ELSE oi.offset_rows,
         oi.inset_rows,
         IF mrow # 0 /\ Selectable(focus_pos) /\ f /\ HasCursor(focus_pos)
           THEN s.cursor[focus_pos] ELSE None)

\* calculate_visible, steps 1 to 5 (no request pending).  f is the focus flag.
CalculateVisibleSteps(s, mrow, f) ==
  IF GetFocus(s) = None THEN EmptyVisible("")
  ELSE CalculateVisibleStep1(s, mrow, f, GetFocus(s), GetFocusOffsetInset(s))

--------------------------------------------------------------------------
\* The focus primitives.  A state s is the record of the ListBox's and the
\* walker's fields plus err, the exception a call has raised ("" for none).

Raise(s, e) == [s EXCEPT !.err = e]

\* A shift_focus that checks nothing of the offset_inset it is given.
ShiftFocusUnchecked(s, mrow, offset_inset) ==
  IF offset_inset >= 0
    THEN [s EXCEPT !.offset_rows = offset_inset, !.inset_fraction = <<0, 1>>]
    ELSE [s EXCEPT !.offset_rows = 0,
                   !.inset_fraction = <<-offset_inset, Rows(GetFocus(s))>>]

\* ListBox.shift_focus(size, offset_inset).  With no focus widget
\* target.rows is the AttributeError of None.
ShiftFocus(s, mrow, offset_inset) ==
  IF s.err # "" THEN s
  ELSE IF offset_inset >= 0
    THEN (IF offset_inset >= mrow
            THEN Raise(s, "ListBoxError")
            ELSE [s EXCEPT !.offset_rows = offset_inset,
                           !.inset_fraction = <<0, 1>>])
    ELSE IF GetFocus(s) = None THEN Raise(s, "AttributeError")
    ELSE LET tgt_rows == Rows(GetFocus(s)) IN
         IF offset_inset + tgt_rows <= 0
           THEN Raise(s, "ListBoxError")
           ELSE [s EXCEPT !.offset_rows = 0,
                          !.inset_fraction = <<-offset_inset, tgt_rows>>]

\* ListBox.update_pref_col_from_focus: a cursor item reports its column.
UpdatePrefColFromFocus(s) ==
  IF s.err # "" \/ GetFocus(s) = None THEN s
  ELSE IF HasCursor(GetFocus(s)) THEN [s EXCEPT !.pref_col = "col0"]
  ELSE s

\* A change_focus that does not snap.
SnapOffsetNever(mrow, position, offset_inset, coming_from, snap_rows) ==
  offset_inset

\* change_focus, "snap" to selectable widgets: the offset_inset after the snap.
SnapOffset(mrow, position, offset_inset, coming_from, snap_rows) ==
  LET tgt_rows == Rows(position)
      align_top == 0
      align_bottom == mrow - tgt_rows
      a == IF coming_from = "above" /\ Selectable(position)
              /\ offset_inset > align_bottom
             THEN (IF snap_rows >= offset_inset - align_bottom THEN align_bottom
                   ELSE IF snap_rows >= offset_inset - align_top THEN align_top
                   ELSE offset_inset - snap_rows)
             ELSE offset_inset
  IN IF coming_from = "below" /\ Selectable(position) /\ a < align_top
       THEN (IF snap_rows >= align_top - a THEN align_top
             ELSE IF snap_rows >= align_bottom - a THEN align_bottom
             ELSE a + snap_rows)
       ELSE a

\* range(first, stop, step) of the rows change_focus tries for the cursor.
RECURSIVE Range(_, _, _)
Range(first, stop, step) ==
  IF (step > 0 /\ first >= stop) \/ (step < 0 /\ first <= stop) THEN <<>>
  ELSE <<first>> \o Range(first + step, stop, step)

\* change_focus, the last loop: the first row the target accepts, if any.
RECURSIVE PlaceCursor(_, _, _)
PlaceCursor(s, position, attempt_rows) ==
  IF attempt_rows = <<>> THEN s
  ELSE IF MoveCursorAccepts(position, Head(attempt_rows))
    THEN [s EXCEPT !.cursor[position] = Head(attempt_rows)]
    ELSE PlaceCursor(s, position, Tail(attempt_rows))

\* change_focus, the cursor placement that ends it.  cursor_coords is <<>>
\* for None and <<row>> for (self.pref_col, row).
ChangeFocusCursor(s, position, coming_from, cursor_coords) ==
  IF cursor_coords = <<>> /\ coming_from = "none" THEN s
  ELSE IF ~HasCursor(position) THEN s
  ELSE IF cursor_coords = <<>>
    THEN (IF coming_from = "above"
            THEN PlaceCursor(s, position, Range(0, Rows(position), 1))
            ELSE PlaceCursor(s, position, Range(Rows(position), -1, -1)))
  ELSE IF cursor_coords[1] < 0 \/ cursor_coords[1] >= Rows(position)
    THEN Raise(s, "ListBoxError")
  ELSE IF coming_from = "above"
    THEN PlaceCursor(s, position, Range(cursor_coords[1], -1, -1))
  ELSE IF coming_from = "below"
    THEN PlaceCursor(s, position, Range(cursor_coords[1], Rows(position), 1))
  ELSE PlaceCursor(s, position, <<cursor_coords[1]>>)

\* A conversion that keeps the rows above the focus widget while it cuts
\* rows off its top.
ChangeFocusConvertBoth(s, position, offset_inset, coming_from, cursor_coords) ==
  [s EXCEPT !.inset_fraction = <<1, 2>>]

\* change_focus, "convert offset_inset to offset_rows or inset_fraction",
\* for the offset_inset the snap left.
ChangeFocusConvert(s, position, offset_inset, coming_from, cursor_coords) ==
  IF offset_inset < 0 /\ offset_inset + Rows(position) <= 0
    THEN Raise(s, "ListBoxError")
  ELSE ChangeFocusCursor(
         IF offset_inset >= 0
           THEN [s EXCEPT !.offset_rows = offset_inset,
                          !.inset_fraction = <<0, 1>>]
           ELSE [s EXCEPT !.offset_rows = 0,
                          !.inset_fraction = <<-offset_inset, Rows(position)>>],
         position, coming_from, cursor_coords)

\* change_focus, '"snap" to selectable widgets': snapped is the offset_inset
\* the two ifs leave; the state notes whether they changed it.
ChangeFocusSnapped(s, position, offset_inset, coming_from, cursor_coords, snapped) ==
  ChangeFocusConvert([s EXCEPT !.snapped = s.snapped \/ snapped # offset_inset],
                     position, snapped, coming_from, cursor_coords)

\* change_focus after self._body.set_focus(position).
ChangeFocusTarget(s, mrow, position, offset_inset, coming_from, cursor_coords, snap_rows) ==
  IF s.err # "" THEN s
  ELSE ChangeFocusSnapped(s, position, offset_inset, coming_from, cursor_coords,
         SnapOffset(mrow, position, offset_inset, coming_from,
                    IF snap_rows = <<>> THEN mrow - 1 ELSE snap_rows[1]))

\* ListBox.change_focus(size, position, offset_inset, coming_from,
\* cursor_coords, snap_rows).  snap_rows is <<>> for None and <<n>> for n.
ChangeFocus(s, mrow, position, offset_inset, coming_from, cursor_coords, snap_rows) ==
  IF s.err # "" THEN s
  ELSE ChangeFocusTarget(
         WalkerSetFocus(IF cursor_coords # <<>> THEN s
                        ELSE UpdatePrefColFromFocus(s), position),
         mrow, position, offset_inset, coming_from, cursor_coords, snap_rows)

--------------------------------------------------------------------------
\* The deferred requests.

NoRequest == [kind |-> "none", coming_from |-> "none", focus_pos |-> None]
FirstSelectable ==
  [kind |-> "first selectable", coming_from |-> "none", focus_pos |-> None]

\* calculate_top_bottom_filler(maxrow, vt, va, GIVEN, rows, None, 0, 0)[0] for
\* vt in top, middle, bottom: the filler rows above a box of the given rows.
TopFiller(mrow, vt, rows) ==
  LET filler == mrow - rows
      \* int(filler * (100 - valign) / 100 + 0.5), int() truncating towards 0
      bottom == IF vt = "top" THEN (IF filler >= 0 THEN filler ELSE filler + 1)
                ELSE IF vt = "middle"
                  THEN (IF filler >= 0 THEN (filler + 1) \div 2
                        ELSE -((-filler - 1) \div 2))
                ELSE 0
      top == mrow - rows - bottom
  IN Max(top, 0)

\* A _set_focus_valign_complete that leaves the position request pending.
SetFocusValignCompleteKept(s, mrow) ==
  IF GetFocus(s) = None THEN [s EXCEPT !.set_focus_valign_pending = "none"]
  ELSE ShiftFocus([s EXCEPT !.set_focus_valign_pending = "none"], mrow,
                  TopFiller(mrow, s.set_focus_valign_pending, Rows(GetFocus(s))))

\* ListBox._set_focus_valign_complete.
SetFocusValignComplete(s, mrow) ==
  LET vt == s.set_focus_valign_pending
      s1 == [s EXCEPT !.set_focus_valign_pending = "none",
                      !.set_focus_pending = NoRequest]
  IN IF GetFocus(s1) = None THEN s1
     ELSE ShiftFocus(s1, mrow, TopFiller(mrow, vt, Rows(GetFocus(s1))))

\* _set_focus_first_selectable, the loop over fill_below.
RECURSIVE FirstSelectableBelow(_, _, _, _)
FirstSelectableBelow(s, mrow, fill_below, new_row_offset) ==
  IF fill_below = <<>> THEN s
  ELSE IF Selectable(Head(fill_below).position)
    THEN ShiftFocus(WalkerSetFocus(s, Head(fill_below).position), mrow,
                    new_row_offset)
    ELSE FirstSelectableBelow(s, mrow, Tail(fill_below),
                              new_row_offset + Head(fill_below).rows)

\* A _set_focus_first_selectable that keeps the item the bottom edge cuts.
SetFocusFirstSelectableUncut(s, mrow, v) ==
  IF v.err # "" THEN Raise(s, v.err)
  ELSE IF v.empty THEN s
  ELSE IF Selectable(v.middle.focus_pos) THEN s
  ELSE FirstSelectableBelow(s, mrow, v.bottom.fill,
                            v.middle.offset + v.middle.focus_rows)

\* _set_focus_first_selectable, after its call of calculate_visible.
SetFocusFirstSelectableVisible(s, mrow, v) ==
  IF v.err # "" THEN Raise(s, v.err)
  ELSE IF v.empty THEN s
  ELSE IF Selectable(v.middle.focus_pos) THEN s
  ELSE FirstSelectableBelow(s, mrow,
         IF v.bottom.trim # 0
           THEN SubSeq(v.bottom.fill, 1, Len(v.bottom.fill) - 1)
           ELSE v.bottom.fill,
         v.middle.offset + v.middle.focus_rows)

\* _set_focus_first_selectable, once both requests are cleared.
SetFocusFirstSelectableCleared(s, mrow, f) ==
  SetFocusFirstSelectableVisible(s, mrow, CalculateVisibleSteps(s, mrow, f))

\* ListBox._set_focus_first_selectable.
SetFocusFirstSelectable(s, mrow, f) ==
  SetFocusFirstSelectableCleared(
    [s EXCEPT !.set_focus_valign_pending = "none",
              !.set_focus_pending = NoRequest], mrow, f)

\* _set_focus_complete, the search of the new position in fill_above
\* (offset is decreased before the comparison) ...
RECURSIVE FindAbove(_, _, _)
FindAbove(fill, position, offset) ==
  IF fill = <<>> THEN [found |-> FALSE, offset |-> offset]
  ELSE IF Head(fill).position = position
    THEN [found |-> TRUE, offset |-> offset - Head(fill).rows]
    ELSE FindAbove(Tail(fill), position, offset - Head(fill).rows)

\* ... and in fill_below (offset is increased after the comparison).
RECURSIVE FindBelow(_, _, _)
FindBelow(fill, position, offset) ==
  IF fill = <<>> THEN [found |-> FALSE, offset |-> offset]
  ELSE IF Head(fill).position = position
    THEN [found |-> TRUE, offset |-> offset]
    ELSE FindBelow(Tail(fill), position, offset + Head(fill).rows)

\* A placement of the widget not found that takes no account of coming_from.
SetFocusCompleteCentred(s, mrow, position, coming_from) ==
  IF s.err # "" THEN s
  ELSE ShiftFocus(s, mrow, (mrow - Rows(position)) \div 2)

\* _set_focus_complete, "failed to find widget among visible widgets": s is
\* the state after self._body.set_focus(position).
SetFocusCompleteNotVisible(s, mrow, position, coming_from) ==
  IF s.err # "" THEN s
  ELSE ShiftFocus(s, mrow,
         IF coming_from = "below" THEN 0
         ELSE IF coming_from = "above" THEN mrow - Rows(position)
         ELSE (mrow - Rows(position)) \div 2)

\* _set_focus_complete, the two for loops: up and down are what they found.
SetFocusCompleteFound(s, mrow, position, coming_from, up, down) ==
  IF up.found
    THEN ChangeFocus(s, mrow, position, up.offset, "below", <<>>, <<>>)
  ELSE IF down.found
    THEN ChangeFocus(s, mrow, position, down.offset, "above", <<>>, <<>>)
  ELSE SetFocusCompleteNotVisible(WalkerSetFocus(s, position), mrow, position,
                                  coming_from)

\* _set_focus_complete, after its call of calculate_visible.
SetFocusCompleteVisible(s, mrow, position, coming_from, v) ==
  IF v.err # "" THEN Raise(s, v.err)
  ELSE SetFocusCompleteFound(s, mrow, position, coming_from,
         FindAbove(v.top.fill, position, v.middle.offset),
         FindBelow(v.bottom.fill, position,
                   v.middle.offset + v.middle.focus_rows))

\* _set_focus_complete, "restore old focus temporarily": s is the state after
\* self._body.set_focus(focus_pos), position the new position.
SetFocusCompleteRestored(s, mrow, f, position, coming_from) ==
  IF s.err # "" THEN s
  ELSE SetFocusCompleteVisible(s, mrow, position, coming_from,
                               CalculateVisibleSteps(s, mrow, f))

\* _set_focus_complete for a (coming_from, widget, focus_pos) request.
SetFocusCompletePosition(s, mrow, f, coming_from, focus_pos) ==
  IF focus_pos = GetFocus(s) THEN s
  ELSE SetFocusCompleteRestored(WalkerSetFocus(s, focus_pos), mrow, f,
                                GetFocus(s), coming_from)

\* A _set_focus_complete that leaves the position request it completes
\* pending.
SetFocusCompleteKept(s, mrow, f) ==
  IF s.set_focus_pending.kind = "first selectable"
    THEN SetFocusFirstSelectable(s, mrow, f)
  ELSE IF s.set_focus_valign_pending # "none"
    THEN SetFocusValignComplete(s, mrow)
  ELSE SetFocusCompletePosition(s, mrow, f, s.set_focus_pending.coming_from,
                                s.set_focus_pending.focus_pos)

\* ListBox._set_focus_complete.
SetFocusComplete(s, mrow, f) ==
  IF s.set_focus_pending.kind = "first selectable"
    THEN SetFocusFirstSelectable(s, mrow, f)
  ELSE IF s.set_focus_valign_pending # "none"
    THEN SetFocusValignComplete(s, mrow)
  ELSE SetFocusCompletePosition([s EXCEPT !.set_focus_pending = NoRequest],
                                mrow, f, s.set_focus_pending.coming_from,
                                s.set_focus_pending.focus_pos)

\* calculate_visible step 0: set the focus if a change is pending.
ResolvePending(s, mrow, f) ==
  IF s.err # "" THEN s
  ELSE IF s.set_focus_pending.kind # "none" \/ s.set_focus_valign_pending # "none"
    THEN SetFocusComplete(s, mrow, f)
    ELSE s

\* What calculate_visible hands back: the Partition (field v) and the state
\* the call leaves (field s), with the error steps 1 to 5 raised.
Visible(s, v) == [s |-> Raise(s, v.err), v |-> v]

\* A calculate_visible that stores the focus offset of its Partition.
CalculateVisibleStored(s, mrow, f) ==
  IF s.err # "" THEN [s |-> s, v |-> EmptyVisible(s.err)]
  ELSE LET r == Visible(s, CalculateVisibleSteps(s, mrow, f))
       IN IF r.v.empty THEN r
          ELSE [r EXCEPT !.s.offset_rows = Max(0, r.v.middle.offset)]

\* calculate_visible, once step 0 has left the state s.
CalculateVisibleResolved(s, mrow, f) ==
  IF s.err # "" THEN [s |-> s, v |-> EmptyVisible(s.err)]
  ELSE Visible(s, CalculateVisibleSteps(s, mrow, f))

\* ListBox.calculate_visible(size, focus).
CalculateVisible(s, mrow, f) ==
  CalculateVisibleResolved(ResolvePending(s, mrow, f), mrow, f)

--------------------------------------------------------------------------
\* The 'up' and 'down' key handlers.  A handler's result is [s, ret]: the
\* state it leaves and what it returns, "unhandled" for True, "handled" for
\* None, "raised" when an exception left it.

Result(s) == [s |-> s, ret |-> IF s.err # "" THEN "raised" ELSE "handled"]
\* A key the handler could not use, reported as handled.
UnhandledAsHandled(s) == Result(s)

\* A handler that returned True: the key goes back to the caller.
Unhandled(s) == [s |-> s, ret |-> "unhandled"]

\* A handler that takes the nearest widget above, selectable or not.
UpVisibleAny(fill, l) ==
  IF fill = <<>> THEN l
  ELSE [l EXCEPT !.widget = Head(fill).position, !.pos = Head(fill).position,
                 !.rows = Head(fill).rows,
                 !.row_offset = l.row_offset - Head(fill).rows,
                 !.found = TRUE]

\* _keypress_up, "look for selectable widget above": the for loop over
\* fill_above.  l = [found, widget, pos, rows, row_offset]
RECURSIVE UpVisible(_, _)
UpVisible(fill, l) ==
  IF fill = <<>> THEN l
  ELSE LET w == Head(fill)
           l1 == [l EXCEPT !.widget = w.position, !.pos = w.position,
                           !.rows = w.rows, !.row_offset = l.row_offset - w.rows]
       IN IF w.rows # 0 /\ Selectable(w.position)
            THEN [l1 EXCEPT !.found = TRUE]
            ELSE UpVisible(Tail(fill), l1)

\* A handler that scrolls no further widget in from above.
UpScrollNever(l) == l

\* _keypress_up, "need to scroll in another candidate widget": the while
\* loop.  l.found is "end" when get_prev ran out of widgets.
RECURSIVE UpScroll(_)
UpScroll(l) ==
  IF ~(l.row_offset > 0) THEN l
  ELSE LET prev == GetPrev(l.pos) IN
    IF prev = None THEN [l EXCEPT !.widget = None, !.pos = None, !.found = "end"]
    ELSE LET l1 == [l EXCEPT !.widget = prev, !.pos = prev, !.rows = Rows(prev),
                             !.row_offset = l.row_offset - Rows(prev)]
         IN IF Rows(prev) # 0 /\ Selectable(prev)
              THEN [l1 EXCEPT !.found = "yes"]
              ELSE UpScroll(l1)

\* _keypress_up, "try harder to get prev widget": the locals after it.
KeypressUpTryHarder(l, prev) ==
  IF l.widget # None THEN l
  ELSE [l EXCEPT !.widget = prev, !.pos = prev,
                 !.rows = IF prev = None THEN None ELSE Rows(prev),
                 !.row_offset = IF prev = None THEN l.row_offset
                                ELSE l.row_offset - Rows(prev)]

\* _keypress_up, "cursor position is a problem, choose another focus".
KeypressUpCursor(s, mrow, l) ==
  IF l.widget = None THEN Result(s)
  ELSE Result(ChangeFocus(s, mrow, l.pos,
                          IF -l.row_offset >= l.rows THEN -(l.rows - 1)
                          ELSE l.row_offset,
                          "below", <<>>, <<>>))

\* _keypress_up once the while loop has left the locals l.
KeypressUpScrolled(s, v, mrow, l) ==
  IF l.found = "end" THEN Unhandled(s)
  ELSE IF l.found = "yes"
          \/ ((~Selectable(v.middle.focus_pos) \/ v.middle.offset + 1 >= mrow)
              /\ l.widget # None)
    THEN Result(ChangeFocus(s, mrow, l.pos, l.row_offset, "below", <<>>, <<>>))
  ELSE IF ~Selectable(v.middle.focus_pos) \/ v.middle.offset + 1 >= mrow
    THEN Result(ShiftFocus(s, mrow, l.row_offset))
  ELSE IF v.middle.cursor # None
          /\ v.middle.cursor + v.middle.offset + 1 >= mrow
    THEN KeypressUpCursor(s, mrow, KeypressUpTryHarder(l, GetPrev(l.pos)))
  ELSE Result(ShiftFocus(s, mrow, v.middle.offset + 1))

\* _keypress_up once the for loop over fill_above has left the locals l.
KeypressUpVisible(s, v, mrow, l) ==
  IF l.found
    THEN Result(ChangeFocus(s, mrow, l.pos, l.row_offset, "below", <<>>, <<>>))
  ELSE KeypressUpScrolled(s, v, mrow,
         UpScroll([found |-> "no", widget |-> l.widget, pos |-> l.pos,
                   rows |-> l.rows, row_offset |-> l.row_offset + 1]))

\* _keypress_up after its call of calculate_visible.
KeypressUpCalculated(cv, mrow) ==
  IF cv.s.err # "" THEN Result(cv.s)
  ELSE IF cv.v.empty THEN Unhandled(cv.s)
  ELSE KeypressUpVisible(cv.s, cv.v, mrow,
         UpVisible(cv.v.top.fill,
                   [found |-> FALSE, widget |-> None,
                    pos |-> cv.v.middle.focus_pos, rows |-> None,
                    row_offset |-> cv.v.middle.offset]))

\* ListBox._keypress_up(size).
KeypressUp(s, mrow) == KeypressUpCalculated(CalculateVisible(s, mrow, TRUE), mrow)

\* A handler that finds no selectable widget among the visible ones.
DownVisibleNever(fill, l) == l

\* _keypress_down, "look for selectable widget below": the for loop over
\* fill_below.  l = [found, widget, pos, rows, row_offset]
RECURSIVE DownVisible(_, _)
DownVisible(fill, l) ==
  IF fill = <<>> THEN l
  ELSE LET w == Head(fill)
           l1 == [l EXCEPT !.widget = w.position, !.pos = w.position,
                           !.rows = w.rows]
       IN IF w.rows # 0 /\ Selectable(w.position)
            THEN [l1 EXCEPT !.found = TRUE]
            ELSE DownVisible(Tail(fill),
                             [l1 EXCEPT !.row_offset = l.row_offset + w.rows])

\* A handler that scrolls no further widget in.
DownScrollNever(l, mrow) == l

\* A handler that takes the list to end below whatever is visible.
DownScrollEnds(l, mrow) == [l EXCEPT !.widget = None, !.pos = None, !.found = "end"]

\* _keypress_down, "need to scroll in another candidate widget".
RECURSIVE DownScroll(_, _)
DownScroll(l, mrow) ==
  IF ~(l.row_offset < mrow) THEN l
  ELSE LET next_pos == GetNext(l.pos) IN
    IF next_pos = None
      THEN [l EXCEPT !.widget = None, !.pos = None, !.found = "end"]
    ELSE LET l1 == [l EXCEPT !.widget = next_pos, !.pos = next_pos,
                             !.rows = Rows(next_pos)]
         IN IF Rows(next_pos) # 0 /\ Selectable(next_pos)
              THEN [l1 EXCEPT !.found = "yes"]
              ELSE DownScroll([l1 EXCEPT !.row_offset =
                                           l.row_offset + Rows(next_pos)], mrow)

\* _keypress_down, "try harder to get next widget": the locals after it.
KeypressDownTryHarder(l, next_pos) ==
  IF l.widget # None THEN [l EXCEPT !.row_offset = l.row_offset - l.rows]
  ELSE [l EXCEPT !.widget = next_pos, !.pos = next_pos]

\* _keypress_down, "cursor position is a problem, choose another focus".
KeypressDownCursor(s, mrow, l) ==
  IF l.widget = None THEN Result(s)
  ELSE Result(ChangeFocus(s, mrow, l.pos,
                          IF l.row_offset >= mrow THEN mrow - 1 ELSE l.row_offset,
                          "above", <<>>, <<>>))

\* _keypress_down once the while loop has left the locals l.
KeypressDownScrolled(s, v, mrow, l) ==
  IF l.found = "end" THEN Unhandled(s)
  ELSE IF l.found = "yes"
    THEN Result(ChangeFocus(s, mrow, l.pos, l.row_offset, "above", <<>>, <<>>))
  ELSE IF ~Selectable(v.middle.focus_pos)
          \/ v.middle.offset + v.middle.focus_rows - 1 <= 0
    THEN (IF l.widget = None
            THEN Result(ShiftFocus(s, mrow, l.row_offset - l.rows))
            ELSE Result(ChangeFocus(s, mrow, l.pos, l.row_offset - l.rows,
                                    "above", <<>>, <<>>)))
  ELSE IF v.middle.cursor # None /\ v.middle.cursor + v.middle.offset - 1 < 0
    THEN KeypressDownCursor(s, mrow, KeypressDownTryHarder(l, GetNext(l.pos)))
  ELSE Result(ShiftFocus(s, mrow, v.middle.offset - 1))

\* _keypress_down once the for loop over fill_below has left the locals l.
KeypressDownVisible(s, v, mrow, l) ==
  IF l.found
    THEN Result(ChangeFocus(s, mrow, l.pos, l.row_offset, "above", <<>>, <<>>))
  ELSE KeypressDownScrolled(s, v, mrow,
         DownScroll([found |-> "no", widget |-> l.widget, pos |-> l.pos,
                     rows |-> l.rows, row_offset |-> l.row_offset - 1], mrow))

\* _keypress_down after its call of calculate_visible.
KeypressDownCalculated(cv, mrow) ==
  IF cv.s.err # "" THEN Result(cv.s)
  ELSE IF cv.v.empty THEN Unhandled(cv.s)
  ELSE KeypressDownVisible(cv.s, cv.v, mrow,
         DownVisible(cv.v.bottom.fill,
                     [found |-> FALSE, widget |-> None,
                      pos |-> cv.v.middle.focus_pos,
                      rows |-> cv.v.middle.focus_rows,
                      row_offset |-> cv.v.middle.offset + cv.v.middle.focus_rows]))

\* ListBox._keypress_down(size).
KeypressDown(s, mrow) ==
  KeypressDownCalculated(CalculateVisible(s, mrow, TRUE), mrow)

--------------------------------------------------------------------------
\* The 'page up' key handler.  The candidate list t holds records
\* [row_offset, pos, rows]; indexes into t are 1-based here, so Python's
\* t[i] is t[i + 1] and snap_region_start counts the same entries.

Candidate(row_offset, pos, rows) ==
  [row_offset |-> row_offset, pos |-> pos, rows |-> rows]

\* "include widgets from calculate_visible(..)".  l = [t, pos, row_offset]
RECURSIVE PageUpVisible(_, _)
PageUpVisible(fill, l) ==
  IF fill = <<>> THEN l
  ELSE LET w == Head(fill)
           ro == l.row_offset - w.rows
       IN PageUpVisible(Tail(fill),
                        [t |-> Append(l.t, Candidate(ro, w.position, w.rows)),
                         pos |-> w.position, row_offset |-> ro])

\* "add newly visible ones, including within snap_rows".
\* l = [t, pos, row_offset, snap_region_start]
RECURSIVE PageUpNewlyVisible(_, _)
PageUpNewlyVisible(l, snap_rows) ==
  IF ~(l.row_offset > -snap_rows) THEN l
  ELSE LET prev == GetPrev(l.pos) IN
    IF prev = None THEN l
    ELSE LET ro == l.row_offset - Rows(prev)
         IN PageUpNewlyVisible(
              [t |-> Append(l.t, Candidate(ro, prev, Rows(prev))),
               pos |-> prev, row_offset |-> ro,
               snap_region_start |-> IF ro > 0 THEN l.snap_region_start + 1
                                     ELSE l.snap_region_start],
              snap_rows)

\* t = [(ro + adjust, w, p, r) for (ro, w, p, r) in t]
AdjustCandidates(t, adjust) ==
  [i \in 1..Len(t) |-> [t[i] EXCEPT !.row_offset = t[i].row_offset + adjust]]

\* list(range(snap_region_start, len(t))) + list(range(snap_region_start - 1, -1, -1))
SearchOrder(snap_region_start, len) ==
  Range(snap_region_start + 1, len + 1, 1) \o Range(snap_region_start, 0, -1)

\* The candidates of a page key: t, snap_rows, search_order, and the
\* row_offset local as the code leaves it before the search.
Candidates(t, snap_rows, row_offset, search_order) ==
  [t |-> t, snap_rows |-> snap_rows, row_offset |-> row_offset,
   search_order |-> search_order]

\* _keypress_page_up, "if focus_widget (first in t) is off edge, remove it".
PageUpOffEdge(t, snap_region_start, snap_rows, mrow) ==
  IF t[1].row_offset >= mrow
    THEN Candidates(Tail(t), snap_rows, t[1].row_offset,
                    SearchOrder(snap_region_start - 1, Len(t) - 1))
    ELSE Candidates(t, snap_rows, t[1].row_offset,
                    SearchOrder(snap_region_start, Len(t)))

\* "if we can't fill the top we need to adjust the row offsets".
PageUpAdjust(l, snap_rows, mrow) ==
  PageUpOffEdge(IF l.t[Len(l.t)].row_offset > 0
                  THEN AdjustCandidates(l.t, -l.t[Len(l.t)].row_offset)
                  ELSE l.t,
                l.snap_region_start, snap_rows, mrow)

\* "gather potential target widgets", once fill_above is in t.
PageUpGather(l, snap_rows, mrow) ==
  PageUpAdjust(PageUpNewlyVisible([t |-> l.t, pos |-> l.pos,
                                   row_offset |-> l.row_offset,
                                   snap_region_start |-> Len(l.t)], snap_rows),
               snap_rows, mrow)

\* scroll_from_row of _keypress_page_up.
PageUpScrollFromRow(v) ==
  IF ~Selectable(v.middle.focus_pos) THEN v.middle.offset
  ELSE IF v.middle.cursor # None THEN -v.middle.cursor
  ELSE IF v.middle.offset >= 0 THEN 0
  ELSE v.middle.offset

\* _keypress_page_up from scroll_from_row to search_order.
PageUpFrom(v, mrow, scroll_from_row) ==
  PageUpGather(
    PageUpVisible(v.top.fill,
      [t |-> <<Candidate(scroll_from_row + mrow, v.middle.focus_pos,
                         v.middle.focus_rows)>>,
       pos |-> v.middle.focus_pos, row_offset |-> scroll_from_row + mrow]),
    v.middle.offset - scroll_from_row, mrow)

PageUpCandidates(v, mrow) == PageUpFrom(v, mrow, PageUpScrollFromRow(v))

\* _keypress_page_up, "try selecting this widget": the change_focus call for
\* the candidate c.
PageUpTry(s, mrow, c, snap_rows) ==
  IF c.rows + c.row_offset <= 0
    THEN ChangeFocus(s, mrow, c.pos, -(c.rows - 1), "below", <<c.rows - 1>>,
                     <<snap_rows - ((-c.row_offset) - (c.rows - 1))>>)
    ELSE ChangeFocus(s, mrow, c.pos, c.row_offset, "below",
                     <<Max(0, -c.row_offset)>>, <<snap_rows>>)

\* _keypress_page_up, "choose the topmost selectable and (newly) visible
\* widget": the first for loop.
\* l = [s, bad_choices, cut_off_selectable_chosen, row_offset, returned],
\* and overshot, the bad choices discarded for reducing the scroll amount.
RECURSIVE PageUpSearch(_, _, _, _, _)

\* The first for loop of 'page up' with "also discard if off top edge" not
\* recording that a cut off selectable was chosen.
PageUpTriedCutOffForgotten(l, mrow, t, order, snap_rows, cv) ==
  IF cv.s.err # "" THEN [l EXCEPT !.s = cv.s, !.returned = TRUE]
  ELSE IF cv.v.middle.offset > l.row_offset + snap_rows
          \/ cv.v.middle.offset < l.row_offset
    THEN PageUpSearch([l EXCEPT !.s = cv.s,
                                !.bad_choices = l.bad_choices \cup {Head(order)},
                                !.overshot = l.overshot \cup {Head(order)}],
                      mrow, t, Tail(order), snap_rows)
  ELSE IF cv.v.middle.offset < 0
    THEN PageUpSearch([l EXCEPT !.s = cv.s,
                                !.bad_choices = l.bad_choices \cup {Head(order)}],
                      mrow, t, Tail(order), snap_rows)
  ELSE [l EXCEPT !.s = cv.s, !.returned = TRUE]

\* "find out where that actually puts us": cv is what calculate_visible
\* returned after the try of t[Head(order)].
PageUpTried(l, mrow, t, order, snap_rows, cv) ==
  IF cv.s.err # "" THEN [l EXCEPT !.s = cv.s, !.returned = TRUE]
  ELSE IF cv.v.middle.offset > l.row_offset + snap_rows
          \/ cv.v.middle.offset < l.row_offset
    THEN PageUpSearch([l EXCEPT !.s = cv.s,
                                !.bad_choices = l.bad_choices \cup {Head(order)},
                                !.overshot = l.overshot \cup {Head(order)}],
                      mrow, t, Tail(order), snap_rows)
  ELSE IF cv.v.middle.offset < 0
    THEN PageUpSearch([l EXCEPT !.s = cv.s,
                                !.bad_choices = l.bad_choices \cup {Head(order)},
                                !.cut_off_selectable_chosen = TRUE],
                      mrow, t, Tail(order), snap_rows)
  ELSE [l EXCEPT !.s = cv.s, !.returned = TRUE]

PageUpSearch(l, mrow, t, order, snap_rows) ==
  IF order = <<>> THEN l
  ELSE IF ~Selectable(t[Head(order)].pos) \/ t[Head(order)].rows = 0
    THEN PageUpSearch([l EXCEPT !.row_offset = t[Head(order)].row_offset],
                      mrow, t, Tail(order), snap_rows)
  ELSE PageUpTried([l EXCEPT !.row_offset = t[Head(order)].row_offset],
                   mrow, t, order, snap_rows,
                   CalculateVisible(PageUpTry(l.s, mrow, t[Head(order)], snap_rows),
                                    mrow, TRUE))

\* [j for j in search_order if j not in bad_choices]
RECURSIVE GoodChoices(_, _)
GoodChoices(order, bad_choices) ==
  IF order = <<>> THEN <<>>
  ELSE (IF Head(order) \in bad_choices THEN <<>> ELSE <<Head(order)>>)
       \o GoodChoices(Tail(order), bad_choices)

\* "if still none found choose the topmost widget": the second for loop.
\* The result is [s, returned, row_offset].
RECURSIVE PageUpFallback(_, _, _, _, _, _, _)
PageUpFallback(s, mrow, t, order, snap_rows, focus_pos, row_offset) ==
  IF order = <<>> THEN [s |-> s, returned |-> FALSE, row_offset |-> row_offset]
  ELSE
  LET c == t[Head(order)] IN
  IF c.pos = focus_pos \/ c.rows = 0
    THEN PageUpFallback(s, mrow, t, Tail(order), snap_rows, focus_pos,
                        c.row_offset)
  ELSE IF c.rows + c.row_offset <= 0
    THEN [s |-> ChangeFocus(s, mrow, c.pos, -(c.rows - 1), "below", <<>>,
                            <<snap_rows - ((-c.row_offset) - (c.rows - 1))>>),
          returned |-> TRUE, row_offset |-> -(c.rows - 1)]
    ELSE [s |-> ChangeFocus(s, mrow, c.pos, c.row_offset, "below", <<>>,
                            <<snap_rows>>),
          returned |-> TRUE, row_offset |-> c.row_offset]

\* "fell short, try to select anything else above".
PageUpFellShortPrev(s, mrow, prev) ==
  IF prev = None THEN s
  ELSE ChangeFocus(s, mrow, prev, -(Rows(prev) - 1), "below",
                   <<Rows(prev) - 1>>, <<0>>)

\* "final check for pathological case where we may fall short": cv is what
\* calculate_visible returned after the shift.
PageUpFellShortCalculated(cv, mrow, t, row_offset) ==
  IF cv.s.err # "" THEN cv.s
  ELSE IF cv.v.middle.offset >= row_offset THEN cv.s
  ELSE IF t = <<>> THEN cv.s
  ELSE PageUpFellShortPrev(cv.s, mrow, GetPrev(t[Len(t)].pos))

\* "no choices available, just shift current one", and the final check.
PageUpFellShort(s, mrow, t, row_offset) ==
  PageUpFellShortCalculated(
    CalculateVisible(ShiftFocus(s, mrow, Min(mrow - 1, row_offset)), mrow, TRUE),
    mrow, t, row_offset)

\* _keypress_page_up once the second for loop has left b.
KeypressPageUpFallback(b, mrow, t) ==
  IF b.returned THEN Result(b.s)
  ELSE Result(PageUpFellShort(b.s, mrow, t, b.row_offset))

\* _keypress_page_up once the first for loop has left a.
KeypressPageUpSearched(a, mrow, c, focus_pos) ==
  IF a.returned \/ a.cut_off_selectable_chosen THEN Result(a.s)
  ELSE KeypressPageUpFallback(
         PageUpFallback(a.s, mrow, c.t,
                        GoodChoices(c.search_order, a.bad_choices)
                          \o c.search_order,
                        c.snap_rows, focus_pos, a.row_offset),
         mrow, c.t)

\* The first for loop of _keypress_page_up over the candidates c.
PageUpSearched(s, mrow, c) ==
  PageUpSearch([s |-> UpdatePrefColFromFocus(s), bad_choices |-> {}, overshot |-> {},
                cut_off_selectable_chosen |-> FALSE,
                row_offset |-> c.row_offset, returned |-> FALSE],
               mrow, c.t, c.search_order, c.snap_rows)

\* _keypress_page_up with its candidates c.
KeypressPageUpCandidates(s, v, mrow, c) ==
  KeypressPageUpSearched(PageUpSearched(s, mrow, c), mrow, c, v.middle.focus_pos)

\* _keypress_page_up after its call of calculate_visible.
KeypressPageUpCalculated(cv, mrow) ==
  IF cv.s.err # "" THEN Result(cv.s)
  ELSE IF cv.v.empty THEN Unhandled(cv.s)
  ELSE KeypressPageUpCandidates(cv.s, cv.v, mrow, PageUpCandidates(cv.v, mrow))

\* ListBox._keypress_page_up(size).
KeypressPageUp(s, mrow) ==
  KeypressPageUpCalculated(CalculateVisible(s, mrow, TRUE), mrow)

--------------------------------------------------------------------------
\* The 'page down' key handler.

\* "include widgets from calculate_visible(..)".  l = [t, pos, row_offset]
RECURSIVE PageDownVisible(_, _)
PageDownVisible(fill, l) ==
  IF fill = <<>> THEN l
  ELSE LET w == Head(fill)
       IN PageDownVisible(Tail(fill),
            [t |-> Append(l.t, Candidate(l.row_offset, w.position, w.rows)),
             pos |-> w.position, row_offset |-> l.row_offset + w.rows])

\* "add newly visible ones, including within snap_rows".
\* l = [t, pos, row_offset, snap_region_start]
RECURSIVE PageDownNewlyVisible(_, _, _)
PageDownNewlyVisible(l, mrow, snap_rows) ==
  IF ~(l.row_offset < mrow + snap_rows) THEN l
  ELSE LET next_pos == GetNext(l.pos) IN
    IF next_pos = None THEN l
    ELSE LET ro == l.row_offset + Rows(next_pos)
         IN PageDownNewlyVisible(
              [t |-> Append(l.t, Candidate(l.row_offset, next_pos, Rows(next_pos))),
               pos |-> next_pos, row_offset |-> ro,
               snap_region_start |-> IF ro < mrow THEN l.snap_region_start + 1
                                     ELSE l.snap_region_start],
              mrow, snap_rows)

\* _keypress_page_down, "if focus_widget (first in t) is off edge, remove it".
PageDownOffEdge(t, snap_region_start, snap_rows, mrow) ==
  IF t[1].row_offset + t[1].rows <= 0
    THEN Candidates(Tail(t), snap_rows, t[1].row_offset,
                    SearchOrder(snap_region_start - 1, Len(t) - 1))
    ELSE Candidates(t, snap_rows, t[1].row_offset,
                    SearchOrder(snap_region_start, Len(t)))

\* "if we can't fill the bottom we need to adjust the row offsets".
PageDownAdjust(l, snap_rows, mrow) ==
  PageDownOffEdge(
    IF l.t[Len(l.t)].row_offset + l.t[Len(l.t)].rows < mrow
      THEN AdjustCandidates(l.t, mrow - (l.t[Len(l.t)].row_offset
                                         + l.t[Len(l.t)].rows))
      ELSE l.t,
    l.snap_region_start, snap_rows, mrow)

\* "gather potential target widgets", once fill_below is in t.
PageDownGather(l, snap_rows, mrow) ==
  PageDownAdjust(PageDownNewlyVisible([t |-> l.t, pos |-> l.pos,
                                       row_offset |-> l.row_offset,
                                       snap_region_start |-> Len(l.t)],
                                      mrow, snap_rows),
                 snap_rows, mrow)

\* scroll_from_row of _keypress_page_down.
PageDownScrollFromRow(v, mrow) ==
  IF ~Selectable(v.middle.focus_pos) THEN mrow - v.middle.offset
  ELSE IF v.middle.cursor # None THEN v.middle.cursor + 1
  ELSE IF mrow - v.middle.offset >= v.middle.focus_rows THEN v.middle.focus_rows
  ELSE mrow - v.middle.offset

\* _keypress_page_down from scroll_from_row to search_order.
PageDownFrom(v, mrow, scroll_from_row) ==
  PageDownGather(
    PageDownVisible(v.bottom.fill,
      [t |-> <<Candidate(-scroll_from_row, v.middle.focus_pos,
                         v.middle.focus_rows)>>,
       pos |-> v.middle.focus_pos,
       row_offset |-> -scroll_from_row + v.middle.focus_rows]),
    (mrow - v.middle.offset) - scroll_from_row, mrow)

PageDownCandidates(v, mrow) == PageDownFrom(v, mrow, PageDownScrollFromRow(v, mrow))

\* _keypress_page_down, "try selecting this widget": the change_focus call
\* for the candidate c.
PageDownTry(s, mrow, c, snap_rows) ==
  IF c.row_offset >= mrow
    THEN ChangeFocus(s, mrow, c.pos, mrow - 1, "above", <<0>>,
                     <<snap_rows + mrow - c.row_offset - 1>>)
    ELSE ChangeFocus(s, mrow, c.pos, c.row_offset, "above",
                     <<Min(mrow - c.row_offset - 1, c.rows - 1)>>, <<snap_rows>>)

\* _keypress_page_down, "choose the bottommost selectable and (newly)
\* visible widget": the first for loop.
\* l = [s, bad_choices, cut_off_selectable_chosen, row_offset, returned],
\* and overshot, the bad choices discarded for reducing the scroll amount.
RECURSIVE PageDownSearch(_, _, _, _, _)

\* "find out where that actually puts us": cv is what calculate_visible
\* returned after the try of t[Head(order)].
PageDownTried(l, mrow, t, order, snap_rows, cv) ==
  IF cv.s.err # "" THEN [l EXCEPT !.s = cv.s, !.returned = TRUE]
  ELSE IF cv.v.middle.offset < l.row_offset - snap_rows
          \/ cv.v.middle.offset > l.row_offset
    THEN PageDownSearch([l EXCEPT !.s = cv.s,
                                  !.bad_choices = l.bad_choices \cup {Head(order)},
                                  !.overshot = l.overshot \cup {Head(order)}],
                        mrow, t, Tail(order), snap_rows)
  ELSE IF cv.v.middle.offset + t[Head(order)].rows > mrow
    THEN PageDownSearch([l EXCEPT !.s = cv.s,
                                  !.bad_choices = l.bad_choices \cup {Head(order)},
                                  !.cut_off_selectable_chosen = TRUE],
                        mrow, t, Tail(order), snap_rows)
  ELSE [l EXCEPT !.s = cv.s, !.returned = TRUE]

PageDownSearch(l, mrow, t, order, snap_rows) ==
  IF order = <<>> THEN l
  ELSE IF ~Selectable(t[Head(order)].pos) \/ t[Head(order)].rows = 0
    THEN PageDownSearch([l EXCEPT !.row_offset = t[Head(order)].row_offset],
                        mrow, t, Tail(order), snap_rows)
  ELSE PageDownTried([l EXCEPT !.row_offset = t[Head(order)].row_offset],
                     mrow, t, order, snap_rows,
                     CalculateVisible(PageDownTry(l.s, mrow, t[Head(order)],
                                                  snap_rows),
                                      mrow, TRUE))

\* "if still none found choose the bottommost widget": the second for loop.
RECURSIVE PageDownFallback(_, _, _, _, _, _, _)
PageDownFallback(s, mrow, t, order, snap_rows, focus_pos, row_offset) ==
  IF order = <<>> THEN [s |-> s, returned |-> FALSE, row_offset |-> row_offset]
  ELSE
  LET c == t[Head(order)] IN
  IF c.pos = focus_pos \/ c.rows = 0
    THEN PageDownFallback(s, mrow, t, Tail(order), snap_rows, focus_pos,
                          c.row_offset)
  ELSE IF c.row_offset >= mrow
    THEN [s |-> ChangeFocus(s, mrow, c.pos, mrow - 1, "above", <<>>,
                            <<snap_rows - (snap_rows + mrow - c.row_offset - 1)>>),
          returned |-> TRUE, row_offset |-> mrow - 1]
    ELSE [s |-> ChangeFocus(s, mrow, c.pos, c.row_offset, "above", <<>>,
                            <<snap_rows>>),
          returned |-> TRUE, row_offset |-> c.row_offset]

\* "fell short, try to select anything else below".
PageDownFellShortNext(s, mrow, next_pos) ==
  IF next_pos = None THEN s
  ELSE ChangeFocus(s, mrow, next_pos, mrow - 1, "above", <<0>>, <<0>>)

\* "final check for pathological case where we may fall short": cv is what
\* calculate_visible returned after the shift.
PageDownFellShortCalculated(cv, mrow, t, row_offset) ==
  IF cv.s.err # "" THEN cv.s
  ELSE IF cv.v.middle.offset <= row_offset THEN cv.s
  ELSE IF t = <<>> THEN cv.s
  ELSE PageDownFellShortNext(cv.s, mrow, GetNext(t[Len(t)].pos))

\* "no choices available, just shift current one", and the final check.
PageDownFellShort(s, mrow, t, focus_rows, row_offset) ==
  PageDownFellShortCalculated(
    CalculateVisible(ShiftFocus(s, mrow, Max(1 - focus_rows, row_offset)),
                     mrow, TRUE),
    mrow, t, row_offset)

\* _keypress_page_down once the second for loop has left b.
KeypressPageDownFallback(b, mrow, t, focus_rows) ==
  IF b.returned THEN Result(b.s)
  ELSE Result(PageDownFellShort(b.s, mrow, t, focus_rows, b.row_offset))

\* _keypress_page_down once the first for loop has left a.
KeypressPageDownSearched(a, mrow, c, v) ==
  IF a.returned \/ a.cut_off_selectable_chosen THEN Result(a.s)
  ELSE KeypressPageDownFallback(
         PageDownFallback(a.s, mrow, c.t,
                          GoodChoices(c.search_order, a.bad_choices)
                            \o c.search_order,
                          c.snap_rows, v.middle.focus_pos, a.row_offset),
         mrow, c.t, v.middle.focus_rows)

\* The first for loop of _keypress_page_down over the candidates c.
PageDownSearched(s, mrow, c) ==
  PageDownSearch([s |-> UpdatePrefColFromFocus(s), bad_choices |-> {}, overshot |-> {},
                  cut_off_selectable_chosen |-> FALSE,
                  row_offset |-> c.row_offset, returned |-> FALSE],
                 mrow, c.t, c.search_order, c.snap_rows)

\* _keypress_page_down with its candidates c.
KeypressPageDownCandidates(s, v, mrow, c) ==
  KeypressPageDownSearched(PageDownSearched(s, mrow, c), mrow, c, v)

\* _keypress_page_down after its call of calculate_visible.
KeypressPageDownCalculated(cv, mrow) ==
  IF cv.s.err # "" THEN Result(cv.s)
  ELSE IF cv.v.empty THEN Unhandled(cv.s)
  ELSE KeypressPageDownCandidates(cv.s, cv.v, mrow,
                                  PageDownCandidates(cv.v, mrow))

\* "page down" that moves by one line.
KeypressPageDownByLine(s, mrow) == KeypressDown(s, mrow)

\* ListBox._keypress_page_down(size).
KeypressPageDown(s, mrow) ==
  KeypressPageDownCalculated(CalculateVisible(s, mrow, TRUE), mrow)

--------------------------------------------------------------------------
\* keypress, mouse_event, render and the focus setters.

\* make_cursor_visible for the cursor row cy and the (offset rows, inset
\* rows) pair oi of the focus widget.
MakeCursorVisibleAt(s, mrow, cy, oi) ==
  IF oi.err # "" THEN Raise(s, oi.err)
  ELSE IF cy < oi.inset_rows THEN ShiftFocus(s, mrow, -cy)
  ELSE IF oi.offset_rows - oi.inset_rows + cy >= mrow
    THEN ShiftFocus(s, mrow, mrow - cy - 1)
  ELSE s

\* ListBox.make_cursor_visible(size).
MakeCursorVisible(s, mrow) ==
  IF s.err # "" \/ GetFocus(s) = None THEN s
  ELSE IF ~Selectable(GetFocus(s)) \/ ~HasCursor(GetFocus(s)) THEN s
  ELSE MakeCursorVisibleAt(s, mrow, s.cursor[GetFocus(s)], GetFocusOffsetInset(s))

\* ListBox.set_focus(position, coming_from).
SetFocus(s, position, coming_from) ==
  IF GetFocus(s) = None THEN Raise(s, "IndexError")
  ELSE WalkerSetFocus(
         [s EXCEPT !.set_focus_pending =
                     [kind |-> "set", coming_from |-> coming_from,
                      focus_pos |-> GetFocus(s)]],
         position)

\* ListBox.set_focus_valign(valign) for valign in top, middle, bottom.
SetFocusValign(s, valign) ==
  IF s.err # "" THEN s ELSE [s EXCEPT !.set_focus_valign_pending = valign]

\* ListBox._keypress_max_left and _keypress_max_right.
KeypressMaxLeft(s) ==
  IF Len(body) = 0 THEN Result(Raise(s, "StopIteration"))
  ELSE Result(SetFocusValign(SetFocus(s, 0, "none"), "top"))

KeypressMaxRight(s) ==
  IF Len(body) = 0 THEN Result(Raise(s, "StopIteration"))
  ELSE Result(SetFocusValign(SetFocus(s, Len(body) - 1, "none"), "bottom"))

Keys == {"up", "down", "page up", "page down", "home", "end", "x"}

\* The focus widget's own keypress when it consumes the key: a cursor item
\* leaves its cursor on the row cy.
WidgetKeypress(s, cy) ==
  IF HasCursor(GetFocus(s)) THEN [s EXCEPT !.cursor[GetFocus(s)] = cy] ELSE s

\* keypress with the command map consulted before the focus widget.
KeypressNavigatesFirst(s, mrow, key, consumed, cy) ==
  IF s.err # "" THEN Result(s)
  ELSE IF GetFocus(s) = None THEN Unhandled(s)
  ELSE IF key = "up" THEN KeypressUp(s, mrow)
  ELSE IF key = "down" THEN KeypressDown(s, mrow)
  ELSE IF key = "page up" THEN KeypressPageUp(s, mrow)
  ELSE IF key = "page down" THEN KeypressPageDown(s, mrow)
  ELSE IF key = "home" THEN KeypressMaxLeft(s)
  ELSE IF key = "end" THEN KeypressMaxRight(s)
  ELSE IF Selectable(GetFocus(s)) /\ consumed
    THEN Result(MakeCursorVisible(WidgetKeypress(s, cy), mrow))
  ELSE Unhandled(s)

\* keypress once the pending requests are completed.
KeypressResolved(s, mrow, key, consumed, cy) ==
  IF s.err # "" THEN Result(s)
  ELSE IF GetFocus(s) = None THEN Unhandled(s)
  ELSE IF Selectable(GetFocus(s)) /\ consumed
    THEN Result(MakeCursorVisible(WidgetKeypress(s, cy), mrow))
  ELSE IF key = "up" THEN KeypressUp(s, mrow)
  ELSE IF key = "down" THEN KeypressDown(s, mrow)
  ELSE IF key = "page up" THEN KeypressPageUp(s, mrow)
  ELSE IF key = "page down" THEN KeypressPageDown(s, mrow)
  ELSE IF key = "home" THEN KeypressMaxLeft(s)
  ELSE IF key = "end" THEN KeypressMaxRight(s)
  ELSE Unhandled(s)

\* ListBox.keypress(size, key).  consumed: the focus widget's keypress
\* returned None; cy: the cursor row a cursor item has after consuming it.
Keypress(s, mrow, key, consumed, cy) ==
  KeypressResolved(ResolvePending(s, mrow, TRUE), mrow, key, consumed, cy)

\* fill_above.reverse()
RECURSIVE Reverse(_)
Reverse(q) == IF q = <<>> THEN <<>> ELSE Reverse(Tail(q)) \o <<Head(q)>>

\* mouse_event, the for loop over w_list: the widget holding the row.
RECURSIVE WidgetAtRow(_, _, _)
WidgetAtRow(w_list, wrow, row) ==
  IF w_list = <<>> THEN [pos |-> None, wrow |-> wrow]
  ELSE IF wrow + Head(w_list).rows > row
    THEN [pos |-> Head(w_list).position, wrow |-> wrow]
    ELSE WidgetAtRow(Tail(w_list), wrow + Head(w_list).rows, row)

\* mouse_event from the widget's own mouse_event on.  handled: what it
\* returns; a cursor item that handles button 1 has moved its cursor to the
\* row pressed.
MouseEventWidget(s, mrow, button, row, handled, w) ==
  IF s.err # "" THEN Result(s)
  ELSE IF handled
    THEN Result(IF button = 1 /\ HasCursor(w.pos)
                  THEN [s EXCEPT !.cursor[w.pos] = row - w.wrow]
                  ELSE s)
  ELSE IF button = 4 THEN KeypressUp(s, mrow)
  ELSE IF button = 5 THEN KeypressDown(s, mrow)
  ELSE Unhandled(s)

\* mouse_event once the for loop over w_list has left w = [pos, wrow].
MouseEventRow(s, mrow, button, row, handled, w) ==
  IF w.pos = None THEN Unhandled(s)
  ELSE MouseEventWidget(
         IF button = 1 /\ Selectable(w.pos)
           THEN ChangeFocus(s, mrow, w.pos, w.wrow, "none", <<>>, <<>>)
           ELSE s,
         mrow, button, row, handled, w)

\* mouse_event after its call of calculate_visible.
MouseEventCalculated(cv, mrow, button, row, handled) ==
  IF cv.s.err # "" THEN Result(cv.s)
  ELSE IF cv.v.empty THEN Unhandled(cv.s)
  ELSE MouseEventRow(cv.s, mrow, button, row, handled,
         WidgetAtRow(Reverse(cv.v.top.fill)
                       \o <<[position |-> cv.v.middle.focus_pos,
                             rows |-> cv.v.middle.focus_rows]>>
                       \o cv.v.bottom.fill,
                     -cv.v.top.trim, row))

\* ListBox.mouse_event(size, "mouse press", button, col, row, focus).
MouseEvent(s, mrow, button, row, handled) ==
  MouseEventCalculated(CalculateVisible(s, mrow, TRUE), mrow, button, row, handled)

\* Sum of the rows of a fill list.
RECURSIVE SumRows(_)
SumRows(fill) == IF fill = <<>> THEN 0 ELSE Head(fill).rows + SumRows(Tail(fill))

\* render, the while loop: probe the widgets that were not rendered.
RECURSIVE ProbeNotRendered(_, _)
ProbeNotRendered(next_pos, rendered_positions) ==
  IF next_pos = None \/ next_pos \in rendered_positions THEN ""
  ELSE IF Rows(next_pos) # 0 THEN "ListBoxError"
  ELSE IF GetNext(next_pos) = next_pos THEN "ListBoxError"
  ELSE ProbeNotRendered(GetNext(next_pos), rendered_positions)

\* A render that trims no row off the combined canvas.
RenderRowsUntrimmed(v) ==
  SumRows(v.top.fill) + v.middle.focus_rows + SumRows(v.bottom.fill)

\* render: the rows of the combined canvas after both trims.
RenderRows(v) ==
  SumRows(v.top.fill) + v.middle.focus_rows + SumRows(v.bottom.fill)
  - v.top.trim - v.bottom.trim

\* render, "if rows < maxrow": the error the checks raise, "" for none.
RenderTooShort(v) ==
  IF v.bottom.trim # 0 THEN "ListBoxError"
  ELSE ProbeNotRendered(
         GetNext(IF v.bottom.fill # <<>>
                   THEN v.bottom.fill[Len(v.bottom.fill)].position
                   ELSE v.middle.focus_pos),
         {v.top.fill[i].position : i \in 1..Len(v.top.fill)}
           \cup {v.middle.focus_pos}
           \cup {v.bottom.fill[i].position : i \in 1..Len(v.bottom.fill)})

\* render once the canvases are combined into rows rows.
RenderCombined(s, v, mrow, rows) ==
  IF rows > mrow THEN [s |-> Raise(s, "ListBoxError"), rows |-> None]
  ELSE IF rows < mrow /\ RenderTooShort(v) # ""
    THEN [s |-> Raise(s, "ListBoxError"), rows |-> None]
  ELSE IF rows < mrow THEN [s |-> s, rows |-> rows + (mrow - rows)]
  ELSE [s |-> s, rows |-> rows]

\* render after its call of calculate_visible.
RenderCalculated(cv, mrow) ==
  IF cv.s.err # "" THEN [s |-> cv.s, rows |-> None]
  ELSE IF cv.v.empty THEN [s |-> cv.s, rows |-> mrow]
  ELSE RenderCombined(cv.s, cv.v, mrow, RenderRows(cv.v))

\* ListBox.render(size, focus): the state it leaves, the error it raises and
\* the rows of the canvas it returns.  Every widget renders the rows it
\* measured.
Render(s, mrow, f) == RenderCalculated(CalculateVisible(s, mrow, f), mrow)

--------------------------------------------------------------------------
\* The state machine.

\* The ListBox and its walker as one record, as the operators above take it:
\* no exception is being raised (err) and no focus change has snapped the
\* offset (snapped) when a handler starts.
Self ==
  [focus |-> focus, cursor |-> cursor, offset_rows |-> offset_rows,
   inset_fraction |-> inset_fraction, pref_col |-> pref_col,
   set_focus_pending |-> set_focus_pending,
   set_focus_valign_pending |-> set_focus_valign_pending, err |-> "",
   snapped |-> FALSE]

\* The fields a call leaves behind, whether it returned or raised; a call
\* that never returns leaves the program no next state.
Commit(s) ==
  /\ s.err # "never returns"
  /\ focus' = s.focus
  /\ cursor' = s.cursor
  /\ offset_rows' = s.offset_rows
  /\ inset_fraction' = s.inset_fraction
  /\ pref_col' = s.pref_col
  /\ set_focus_pending' = s.set_focus_pending
  /\ set_focus_valign_pending' = s.set_focus_valign_pending

\* The widgets a body may hold: a cursor item is selectable and has rows.
Widgets ==
  {w \in [rows : 0..MaxItemRows, sel : BOOLEAN, cur : BOOLEAN] :
     w.cur => (w.sel /\ w.rows >= 1)}

RECURSIVE SeqsOf(_, _)
SeqsOf(S, n) ==
  IF n = 0 THEN {<<>>}
  ELSE LET shorter == SeqsOf(S, n - 1)
       IN shorter \cup {Append(q, x) : q \in {r \in shorter : Len(r) = n - 1},
                                       x \in S}

\* Screen.__init__, and whether start() has run since: no reader thread, no
\* handle and no alarm, an event loop that holds nothing, a quiet console.
ScreenConstructed(st) ==
  /\ started = st
  /\ input_thread = None
  /\ current_event_loop_handles = {}
  /\ input_timeout = FALSE
  /\ threads = <<>>
  /\ watches = {}
  /\ handles_made = 0
  /\ alarms = 0
  /\ console = <<>>
  /\ arrived = 0
  /\ socket = 0
  /\ resize_pipe = 0
  /\ main_pc = "idle"

\* ListBox.__init__ over a walker of kind k with the contents b, the other
\* walker objects of the program being the spare ones: the state after
\* construction, for a viewport height.  The walker objects are numbered, the
\* body is number 0, and the constructor has connected _invalidate to it.
ConstructedAmong(b, w, h, k, spare) ==
  /\ body = b
  /\ wrap_around = w
  /\ focus = 0
  /\ cursor = [p \in 0..(Len(b) - 1) |-> 0]
  /\ offset_rows = 0
  /\ inset_fraction = <<0, 1>>
  /\ pref_col = "left"
  /\ set_focus_pending = FirstSelectable
  /\ set_focus_valign_pending = "none"
  /\ maxrow = h
  /\ presses = 0
  /\ body_kind = k
  /\ rendered_size = 0
  /\ rows_max_cached = 0
  /\ body_id = 0
  /\ shelved = spare
  /\ connected = [i \in {0} \cup DOMAIN spare |-> IF i = 0 THEN 1 ELSE 0]
  /\ ScreenConstructed(FALSE)

\* ListBox.__init__ over a SimpleListWalker(contents, wrap_around), the only
\* walker of the program.
ConstructedOver(b, w, h) == ConstructedAmong(b, w, h, "sized", <<>>)

\* wrap_around defaults to False.
Constructed(b, h) == ConstructedOver(b, FALSE, h)

Init == \E b \in SeqsOf(Widgets, MaxItems), h \in 1..MaxRows : Constructed(b, h)

\* calculate_visible(size, focus) called from outside.
DoCalculateVisible ==
  \E f \in BOOLEAN :
    /\ LET r == CalculateVisible(Self, maxrow, f) IN Commit(r.s)
    /\ UNCHANGED <<body, wrap_around, maxrow, presses, scroll_vars, signal_vars, console_vars>>

\* render(size, focus).
DoRender ==
  \E f \in BOOLEAN :
    /\ LET r == Render(Self, maxrow, f) IN Commit(r.s)
    /\ rendered_size' = maxrow
    /\ UNCHANGED <<body, wrap_around, maxrow, presses, body_kind,
                   rows_max_cached, signal_vars, console_vars>>

\* keypress(size, key).  A focus widget that consumes the key does so whatever
\* the key is, so one key stands for the consumed ones; a cursor item leaves
\* its cursor on one of its rows.
DoKeypress ==
  \E key \in Keys, consumed \in BOOLEAN, cy \in 0..(MaxItemRows - 1) :
    /\ consumed => key = "x"
    /\ (consumed /\ GetFocus(Self) # None /\ HasCursor(GetFocus(Self)))
         => cy < Rows(GetFocus(Self))
    /\ ~(consumed /\ GetFocus(Self) # None /\ HasCursor(GetFocus(Self))) => cy = 0
    /\ LET r == Keypress(Self, maxrow, key, consumed, cy) IN Commit(r.s)
    /\ UNCHANGED <<body, wrap_around, maxrow, presses, scroll_vars, signal_vars, console_vars>>

\* mouse_event(size, "mouse press", button, col, row, focus).  The widgets of
\* the model handle button 1 only.
DoMouseEvent ==
  \E button \in {1, 4, 5}, row \in 0..(maxrow - 1), handled \in BOOLEAN :
    /\ handled => button = 1
    /\ LET r == MouseEvent(Self, maxrow, button, row, handled) IN Commit(r.s)
    /\ UNCHANGED <<body, wrap_around, maxrow, presses, scroll_vars, signal_vars, console_vars>>

\* set_focus(position, coming_from); one position past the end is tried too.
DoSetFocus ==
  \E position \in 0..Len(body), coming_from \in {"above", "below", "none"} :
    /\ LET s == SetFocus(Self, position, coming_from) IN Commit(s)
    /\ UNCHANGED <<body, wrap_around, maxrow, presses, scroll_vars, signal_vars, console_vars>>

\* set_focus_valign(valign).
DoSetFocusValign ==
  \E valign \in {"top", "middle", "bottom"} :
    /\ LET s == SetFocusValign(Self, valign) IN Commit(s)
    /\ UNCHANGED <<body, wrap_around, maxrow, presses, scroll_vars, signal_vars, console_vars>>

\* The terminal is resized: the next calls come with another maxrow.
Resize ==
  \E h \in 1..MaxRows :
    /\ h # maxrow
    /\ maxrow' = h
    /\ UNCHANGED <<body, wrap_around, focus, cursor, offset_rows, inset_fraction,
                   pref_col, set_focus_pending, set_focus_valign_pending,
                   presses, scroll_vars, signal_vars, console_vars>>

Next ==
  \/ DoCalculateVisible
  \/ DoKeypress
  \/ DoMouseEvent
  \/ Resize

Spec == Init /\ [][Next]_vars

--------------------------------------------------------------------------
\* Rendering: the ListBox is rendered between the events, in a viewport that
\* keeps its height.

\* The bodies have one cursor widget at most.
RenderInit ==
  \E b \in SeqsOf(Widgets, MaxItems), h \in 1..MaxRows :
    /\ Cardinality({p \in 1..Len(b) : b[p].cur}) <= 1
    /\ Constructed(b, h)

RenderNext ==
  \/ DoCalculateVisible
  \/ DoRender
  \/ DoKeypress
  \/ DoMouseEvent

RenderSpec == RenderInit /\ [][RenderNext]_vars

--------------------------------------------------------------------------
\* Traversal: a list of selectable one-row items, taller than the viewport,
\* on which "down" is pressed again and again from the first item; the list
\* may be laid out between two presses.

MaxTraversal == 6

\* The bodies of the traversal: n items of one row, all selectable, none of
\* which consumes a key; the items all have a cursor or none has.
TraversalBodies ==
  {[p \in 1..n |-> [rows |-> 1, sel |-> TRUE, cur |-> c]] :
     n \in 2..MaxTraversal, c \in BOOLEAN}

TraversalInit ==
  \E b \in TraversalBodies, h \in 1..(MaxTraversal - 1) :
    h < Len(b) /\ Constructed(b, h)

\* keypress(size, "down"), the key not consumed by the focus widget; the
\* presses are counted, up to two presses past the last item.
PressDown ==
  /\ presses <= Len(body)
  /\ LET r == Keypress(Self, maxrow, "down", FALSE, 0) IN Commit(r.s)
  /\ presses' = presses + 1
  /\ UNCHANGED <<body, wrap_around, maxrow, scroll_vars, signal_vars, console_vars>>

TraversalNext ==
  \/ PressDown
  \/ DoCalculateVisible

TraversalSpec == TraversalInit /\ [][TraversalNext]_vars

--------------------------------------------------------------------------
\* Requests: focus and alignment requests are made between layouts of a
\* viewport that keeps its height.

RequestNext ==
  \/ DoCalculateVisible
  \/ DoSetFocus
  \/ DoSetFocusValign

RequestSpec == Init /\ [][RequestNext]_vars

--------------------------------------------------------------------------
\* Wrap-around: the ListBox over a SimpleListWalker(contents, wrap_around=True),
\* whose next_position and prev_position go round the body.

MaxFewItems == 2

WrapInit ==
  \E b \in SeqsOf(Widgets, MaxFewItems), h \in 1..MaxRows : ConstructedOver(b, TRUE, h)

WrapNext ==
  \/ DoCalculateVisible
  \/ DoRender
  \/ DoKeypress
  \/ DoMouseEvent

WrapSpec == WrapInit /\ [][WrapNext]_vars

--------------------------------------------------------------------------
\* The primitives: shift_focus and change_focus are called from outside too,
\* between the requests, the keys, the mouse presses and the layouts.

\* shift_focus(size, offset_inset).
DoShiftFocus ==
  \E offset_inset \in (-MaxItemRows)..maxrow :
    /\ Commit(ShiftFocus(Self, maxrow, offset_inset))
    /\ UNCHANGED <<body, wrap_around, maxrow, presses, scroll_vars, signal_vars, console_vars>>

\* change_focus(size, position, offset_inset, coming_from), for the positions
\* of the body.
DoChangeFocus ==
  \E position \in 0..(Len(body) - 1), offset_inset \in (-1)..maxrow,
     coming_from \in {"above", "below", "none"} :
    /\ Commit(ChangeFocus(Self, maxrow, position, offset_inset, coming_from,
                          <<>>, <<>>))
    /\ UNCHANGED <<body, wrap_around, maxrow, presses, scroll_vars, signal_vars, console_vars>>

MaxFewRows == 2

\* The bodies have one cursor widget at most.
PrimitivesInit ==
  \E b \in SeqsOf(Widgets, MaxFewItems), h \in 1..MaxFewRows :
    /\ Cardinality({p \in 1..Len(b) : b[p].cur}) <= 1
    /\ Constructed(b, h)

PrimitivesNext ==
  \/ DoCalculateVisible
  \/ DoKeypress
  \/ DoMouseEvent
  \/ DoSetFocus
  \/ DoSetFocusValign
  \/ DoShiftFocus
  \/ DoChangeFocus

PrimitivesSpec == PrimitivesInit /\ [][PrimitivesNext]_vars

--------------------------------------------------------------------------
\* The scroll position queries.  A query's result is [s, rendered_size,
\* rows_max_cached, ret]: the state and the two remembered values it leaves
\* and what it returns.  Its size is the viewport height, or None when the
\* call gives no size.

\* What a class of bodies provides: "sized" has get_focus, set_focus, get_next
\* and get_prev and is Sized (SimpleListWalker), "unsized" has the four
\* methods only, "partial" lacks one of them.
BodyKinds == {"sized", "unsized", "partial"}

\* ListBox._check_support_scrolling: the error it raises, "" for none.
CheckSupportScrolling ==
  IF body_kind = "partial" THEN "ListBoxError"
  ELSE IF body_kind # "sized" THEN "ListBoxError"
  ELSE IF wrap_around THEN "ListBoxError"
  ELSE ""

\* What a query leaves when it has remembered the size rs and cached c.
Queried(s, rs, c, ret) ==
  [s |-> s, rendered_size |-> rs, rows_max_cached |-> c,
   ret |-> IF s.err # "" THEN None ELSE ret]

\* The topmost position of a Partition: top.fill[-1].position if top.fill,
\* else the focus position.
FirstVisible(v) ==
  IF v.top.fill # <<>> THEN v.top.fill[Len(v.top.fill)].position
  ELSE v.middle.focus_pos

\* get_scrollpos, get_first_visible_pos and get_visible_amount after their
\* call of calculate_visible, which returned cv for the size rs.
QueriedVisible(query, cv, rs) ==
  Queried(cv.s, rs, rows_max_cached,
          IF cv.s.err # "" THEN None
          ELSE IF query = "get_scrollpos"
            THEN cv.v.top.trim + SumRows(SubSeq(body, 1, FirstVisible(cv.v)))
          ELSE IF query = "get_first_visible_pos" THEN FirstVisible(cv.v)
          ELSE 1 + Len(cv.v.top.fill) + Len(cv.v.bottom.fill))

\* A get_scrollpos that does not check what the body provides.
GetScrollposUnchecked(s, size, f) ==
  IF body = <<>> THEN Queried(s, rendered_size, rows_max_cached, 0)
  ELSE QueriedVisible("get_scrollpos",
                      CalculateVisible(s, IF size # None THEN size
                                          ELSE rendered_size, f),
                      IF size # None THEN size ELSE rendered_size)

\* ListBox.get_scrollpos(size, focus).
GetScrollpos(s, size, f) ==
  IF CheckSupportScrolling # ""
    THEN Queried(Raise(s, CheckSupportScrolling), rendered_size,
                 rows_max_cached, None)
  ELSE IF body = <<>> THEN Queried(s, rendered_size, rows_max_cached, 0)
  ELSE QueriedVisible("get_scrollpos",
                      CalculateVisible(s, IF size # None THEN size
                                          ELSE rendered_size, f),
                      IF size # None THEN size ELSE rendered_size)

\* ListBox.rows_max(size, focus): the rows are counted again when a size is
\* given or when the cached total is 0.
RowsMax(s, size, f) ==
  IF CheckSupportScrolling # ""
    THEN Queried(Raise(s, CheckSupportScrolling), rendered_size,
                 rows_max_cached, None)
  ELSE IF size # None \/ rows_max_cached = 0
    THEN Queried(s, IF size # None THEN size ELSE rendered_size,
                 IF GetFocus(s) # None THEN SumRows(body) ELSE 0,
                 IF GetFocus(s) # None THEN SumRows(body) ELSE 0)
  ELSE Queried(s, rendered_size, rows_max_cached, rows_max_cached)

\* ListBox.get_first_visible_pos(size, focus) and get_visible_amount(size,
\* focus), which return 0 and 1 on an empty body.
GetVisible(query, s, size, f) ==
  IF CheckSupportScrolling # ""
    THEN Queried(Raise(s, CheckSupportScrolling), rendered_size,
                 rows_max_cached, None)
  ELSE IF body = <<>>
    THEN Queried(s, rendered_size, rows_max_cached,
                 IF query = "get_first_visible_pos" THEN 0 ELSE 1)
  ELSE QueriedVisible(query, CalculateVisible(s, size, f), rendered_size)

\* ListBox.ends_visible(size, focus) after its call of calculate_visible: the
\* list it returns.
EndsVisibleOf(v, mrow) ==
  IF v.empty THEN <<"top", "bottom">>
  ELSE (IF v.top.trim = 0
          /\ GetPrev(IF v.top.fill # <<>>
                       THEN v.top.fill[Len(v.top.fill)].position
                       ELSE v.middle.focus_pos) = None
        THEN <<"top">> ELSE <<>>)
       \o (IF v.bottom.trim = 0
             /\ (\/ v.middle.offset + v.middle.focus_rows
                       + SumRows(v.bottom.fill) < mrow
                 \/ GetNext(IF v.bottom.fill # <<>>
                              THEN v.bottom.fill[Len(v.bottom.fill)].position
                              ELSE v.middle.focus_pos) = None)
           THEN <<"bottom">> ELSE <<>>)

\* ListBox.ends_visible(size, focus): [s, ret].
EndsVisible(s, mrow, f) ==
  [s |-> CalculateVisible(s, mrow, f).s,
   ret |-> IF CalculateVisible(s, mrow, f).s.err # "" THEN <<>>
           ELSE EndsVisibleOf(CalculateVisible(s, mrow, f).v, mrow)]

\* ListBox.get_cursor_coords(size) after its call of calculate_visible: the
\* row of the cursor in the viewport, or None.
CursorCoordsOf(v, mrow) ==
  IF v.empty \/ v.middle.cursor = None THEN None
  ELSE IF v.middle.cursor + v.middle.offset < 0
          \/ v.middle.cursor + v.middle.offset >= mrow THEN None
  ELSE v.middle.cursor + v.middle.offset

\* ListBox.get_cursor_coords(size): [s, ret].
GetCursorCoords(s, mrow) ==
  [s |-> CalculateVisible(s, mrow, TRUE).s,
   ret |-> IF CalculateVisible(s, mrow, TRUE).s.err # "" THEN None
           ELSE CursorCoordsOf(CalculateVisible(s, mrow, TRUE).v, mrow)]

\* The fields and the remembered values a query leaves behind.
CommitQuery(q) ==
  /\ Commit(q.s)
  /\ rendered_size' = q.rendered_size
  /\ rows_max_cached' = q.rows_max_cached

\* get_scrollpos(size, focus), with a size or without.
DoGetScrollpos ==
  \E size \in {None, maxrow}, f \in BOOLEAN :
    /\ CommitQuery(GetScrollpos(Self, size, f))
    /\ UNCHANGED <<body, wrap_around, maxrow, presses, body_kind, signal_vars, console_vars>>

\* rows_max(size, focus), with a size or without.
DoRowsMax ==
  \E size \in {None, maxrow}, f \in BOOLEAN :
    /\ CommitQuery(RowsMax(Self, size, f))
    /\ UNCHANGED <<body, wrap_around, maxrow, presses, body_kind, signal_vars, console_vars>>

\* get_first_visible_pos(size, focus) and get_visible_amount(size, focus).
DoGetVisible ==
  \E query \in {"get_first_visible_pos", "get_visible_amount"}, f \in BOOLEAN :
    /\ CommitQuery(GetVisible(query, Self, maxrow, f))
    /\ UNCHANGED <<body, wrap_around, maxrow, presses, body_kind, signal_vars, console_vars>>

\* ends_visible(size, focus).
DoEndsVisible ==
  \E f \in BOOLEAN :
    /\ Commit(EndsVisible(Self, maxrow, f).s)
    /\ UNCHANGED <<body, wrap_around, maxrow, presses, scroll_vars, signal_vars, console_vars>>

\* get_cursor_coords(size).
DoGetCursorCoords ==
  /\ Commit(GetCursorCoords(Self, maxrow).s)
  /\ UNCHANGED <<body, wrap_around, maxrow, presses, scroll_vars, signal_vars, console_vars>>

\* The body, a MonitoredList, is appended a widget w: SimpleListWalker's
\* _modified keeps the focus (it is below the new length) and emits
\* "modified"; the new item's cursor is on its first row.
DoAppend ==
  \E w \in Widgets :
    /\ Len(body) < MaxFewItems
    /\ body' = Append(body, w)
    /\ cursor' = [p \in 0..Len(body) |-> IF p < Len(body) THEN cursor[p] ELSE 0]
    /\ UNCHANGED <<wrap_around, focus, offset_rows, inset_fraction, pref_col,
                   set_focus_pending, set_focus_valign_pending, maxrow, presses,
                   scroll_vars, signal_vars, console_vars>>

\* The last widget of the body is removed (pop): SimpleListWalker's _modified
\* moves a focus that is past the end to the last position, or to 0, and
\* emits "modified".
DoPop ==
  /\ body # <<>>
  /\ body' = SubSeq(body, 1, Len(body) - 1)
  /\ focus' = IF focus >= Len(body) - 1 THEN Max(0, Len(body) - 2) ELSE focus
  /\ cursor' = [p \in 0..(Len(body) - 2) |-> cursor[p]]
  /\ UNCHANGED <<wrap_around, offset_rows, inset_fraction, pref_col,
                 set_focus_pending, set_focus_valign_pending, maxrow, presses,
                 scroll_vars, signal_vars, console_vars>>

\* Scrolling: a ListBox over a body of any kind, wrap-around when the kind is
\* SimpleListWalker's, is laid out, rendered and queried while widgets are
\* added to the body and removed from it.
ScrollInit ==
  \E b \in SeqsOf(Widgets, MaxFewItems), w \in BOOLEAN, h \in 1..MaxFewRows,
     k \in BodyKinds :
    /\ Cardinality({p \in 1..Len(b) : b[p].cur}) <= 1
    /\ w => k = "sized"
    /\ ConstructedAmong(b, w, h, k, <<>>)

ScrollNext ==
  \/ DoCalculateVisible
  \/ DoRender
  \/ DoGetScrollpos
  \/ DoRowsMax
  \/ DoGetVisible
  \/ DoEndsVisible
  \/ DoGetCursorCoords
  \/ DoAppend
  \/ DoPop

ScrollSpec == ScrollInit /\ [][ScrollNext]_vars

--------------------------------------------------------------------------
\* The body setter and the "modified" signal.

MaxWalkers == 3

\* A body setter that connects the new body and leaves the old one connected.
ReconnectedBoth(conn, old, new) == [conn EXCEPT ![new] = @ + 1]

\* The body setter's disconnect_signal(old, "modified", self._invalidate),
\* which removes a connection if there is one, followed by its
\* connect_signal(new, "modified", self._invalidate), which adds one: the
\* connections of _invalidate per walker object.
Reconnected(conn, old, new) ==
  [[conn EXCEPT ![old] = Max(0, @ - 1)] EXCEPT ![new] = @ + 1]

\* emit_signal(walker i, "modified") calls every connected callback once: how
\* many times it calls the ListBox's _invalidate.
Invalidations(i) == connected[i]

\* The walker object that is the body, as it is shelved when another one
\* takes its place.
BodyWalker ==
  [body |-> body, wrap_around |-> wrap_around, focus |-> focus,
   cursor |-> cursor, kind |-> body_kind]

\* listbox.body = walker i, for the body itself or a shelved walker: the
\* ListBox keeps its offset, inset and pending requests and reads the focus
\* of its new body.
DoSetBody ==
  \E i \in DOMAIN connected :
    /\ connected' = Reconnected(connected, body_id, i)
    /\ body_id' = i
    /\ IF i = body_id
         THEN UNCHANGED <<body, wrap_around, focus, cursor, body_kind, shelved>>
         ELSE /\ body' = shelved[i].body
              /\ wrap_around' = shelved[i].wrap_around
              /\ focus' = shelved[i].focus
              /\ cursor' = shelved[i].cursor
              /\ body_kind' = shelved[i].kind
              /\ shelved' = [j \in (DOMAIN shelved \ {i}) \cup {body_id} |->
                               IF j = body_id THEN BodyWalker ELSE shelved[j]]
    /\ UNCHANGED <<offset_rows, inset_fraction, pref_col, set_focus_pending,
                   set_focus_valign_pending, maxrow, presses, rendered_size,
                   rows_max_cached,
                   console_vars>>

\* set_focus(position) on a shelved walker, which emits "modified".
DoSetFocusShelved ==
  \E i \in DOMAIN shelved, position \in 0..(MaxFewItems - 1) :
    /\ position < Len(shelved[i].body)
    /\ shelved' = [shelved EXCEPT ![i].focus = position]
    /\ UNCHANGED <<body, wrap_around, focus, cursor, offset_rows, inset_fraction,
                   pref_col, set_focus_pending, set_focus_valign_pending,
                   maxrow, presses, scroll_vars, body_id, connected,
                   console_vars>>

\* A SimpleListWalker(contents) nobody has touched.
FreshWalker(b) ==
  [body |-> b, wrap_around |-> FALSE, focus |-> 0,
   cursor |-> [p \in 0..(Len(b) - 1) |-> 0], kind |-> "sized"]

\* Subscription: a program with MaxWalkers walkers, one of them the body of
\* the ListBox at first, that replaces the body again and again between
\* layouts and changes of the walkers.  The widgets have no cursor.
SubscriptionInit ==
  \E b \in SeqsOf({w \in Widgets : ~w.cur}, MaxFewItems), h \in 1..MaxFewRows,
     others \in [1..(MaxWalkers - 1) -> {w \in Widgets : ~w.cur /\ w.rows = 1}] :
    ConstructedAmong(b, FALSE, h, "sized",
                     [i \in 1..(MaxWalkers - 1) |->
                        FreshWalker(IF i = 1 THEN <<others[i]>>
                                    ELSE <<others[i], others[i]>>)])

SubscriptionNext ==
  \/ DoSetBody
  \/ DoSetFocusShelved
  \/ DoSetFocus
  \/ DoCalculateVisible

SubscriptionSpec == SubscriptionInit /\ [][SubscriptionNext]_vars

--------------------------------------------------------------------------
\* Paging: the ListBox over items of one row, all selectable and without a
\* cursor, none of which consumes a key, under the four movement keys.

PagingBodies ==
  {[p \in 1..n |-> [rows |-> 1, sel |-> TRUE, cur |-> FALSE]] :
     n \in 1..MaxTraversal}

PagingInit ==
  \E b \in PagingBodies, h \in 1..MaxTraversal : Constructed(b, h)

\* keypress(size, key) for a movement key, not consumed by the focus widget.
PressMovement ==
  \E key \in {"up", "down", "page up", "page down"} :
    /\ LET r == Keypress(Self, maxrow, key, FALSE, 0) IN Commit(r.s)
    /\ UNCHANGED <<body, wrap_around, maxrow, presses, scroll_vars, signal_vars, console_vars>>

PagingNext ==
  \/ PressMovement
  \/ DoCalculateVisible

PagingSpec == PagingInit /\ [][PagingNext]_vars

--------------------------------------------------------------------------
\* The Windows console Screen: hook_event_loop and unhook_event_loop, the
\* ReadInputThread objects they start and stop, the event loop they register
\* with, and the console the threads read.

MaxThreads == 2
MaxRecords == 2

\* Everything but the Screen: the ListBox and its walkers.
widget_vars == <<body, wrap_around, focus, cursor, offset_rows, inset_fraction,
                 pref_col, set_focus_pending, set_focus_valign_pending, maxrow,
                 presses, scroll_vars, signal_vars>>

\* The input records of the model: a key-down event and a
\* WINDOW_BUFFER_SIZE_EVENT.
Records == {"key", "resize"}

\* ReadInputThread.__init__ and start(): should_exit is the class default,
\* the thread is about to call ReadConsoleInputW.
StartedThread == [pc |-> "reading", should_exit |-> FALSE, batch |-> <<>>]

\* Screen.get_input_descriptors(): how many descriptors it returns, the
\* resize pipe and the input socket once the screen is started.
GetInputDescriptors == IF started THEN 2 ELSE 0

\* Screen.hook_event_loop(event_loop, callback): a new reader thread is
\* started and kept in _input_thread, one watch per descriptor is registered
\* and the handles are kept.
HookEventLoop ==
  /\ main_pc = "idle"
  /\ Len(threads) < MaxThreads
  /\ threads' = Append(threads, StartedThread)
  /\ input_thread' = Len(threads) + 1
  /\ LET handles == {handles_made + i : i \in 1..GetInputDescriptors}
     IN /\ watches' = watches \cup handles
        /\ current_event_loop_handles' = handles
        /\ handles_made' = handles_made + GetInputDescriptors
  /\ UNCHANGED <<started, input_timeout, alarms, console, arrived, socket,
                 resize_pipe, main_pc, widget_vars>>

\* unhook_event_loop after the thread is dealt with: remove_watch_file for
\* every kept handle, remove_alarm for a kept input timeout.
RemoveHooks ==
  /\ watches' = watches \ current_event_loop_handles
  /\ alarms' = IF input_timeout THEN Max(0, alarms - 1) ELSE alarms
  /\ input_timeout' = FALSE
  /\ UNCHANGED <<started, current_event_loop_handles, handles_made, console,
                 arrived, socket, resize_pipe, widget_vars>>

\* Screen.unhook_event_loop(event_loop) with no thread in _input_thread.
UnhookEventLoopUnhooked ==
  /\ main_pc = "idle"
  /\ input_thread = None
  /\ RemoveHooks
  /\ UNCHANGED <<input_thread, threads, main_pc>>

\* Screen.unhook_event_loop(event_loop) with a thread in _input_thread, up
\* to its join(5): should_exit is set on the thread and the main thread waits.
UnhookEventLoopJoin ==
  /\ main_pc = "idle"
  /\ input_thread # None
  /\ threads' = [threads EXCEPT ![input_thread].should_exit = TRUE]
  /\ main_pc' = "joining"
  /\ UNCHANGED <<started, input_thread, current_event_loop_handles,
                 input_timeout, watches, handles_made, alarms, console, arrived,
                 socket, resize_pipe, widget_vars>>

\* Whether a thread has a step to take: it is blocked in ReadConsoleInputW
\* as long as the console has no record.
Blocked(t) == threads[t].pc = "reading" /\ console = <<>>
Alive(t) == threads[t].pc # "exited"

\* join(5) returns, and unhook_event_loop runs to its end: the thread has
\* ended, or the five seconds have passed with the thread blocked in
\* ReadConsoleInputW; _input_thread is forgotten either way.
UnhookEventLoopJoined ==
  /\ main_pc = "joining"
  /\ ~Alive(input_thread) \/ Blocked(input_thread)
  /\ input_thread' = None
  /\ main_pc' = "idle"
  /\ RemoveHooks
  /\ UNCHANGED threads

\* The console receives an input record.
ConsoleInput ==
  \E record \in Records :
    /\ arrived < MaxRecords
    /\ console' = Append(console, record)
    /\ arrived' = arrived + 1
    /\ UNCHANGED <<started, input_thread, current_event_loop_handles,
                   input_timeout, threads, watches, handles_made, alarms, socket,
                   resize_pipe, main_pc, widget_vars>>

\* ReadInputThread.run: ReadConsoleInputW returns with the records that wait.
ThreadRead ==
  \E t \in DOMAIN threads :
    /\ threads[t].pc = "reading"
    /\ console # <<>>
    /\ threads' = [threads EXCEPT ![t].pc = "checking", ![t].batch = console]
    /\ console' = <<>>
    /\ UNCHANGED <<started, input_thread, current_event_loop_handles,
                   input_timeout, watches, handles_made, alarms, arrived, socket,
                   resize_pipe, main_pc, widget_vars>>

\* ReadInputThread.run: "if self.should_exit: return", the records of the
\* batch going with it.
ThreadCheck ==
  \E t \in DOMAIN threads :
    /\ threads[t].pc = "checking"
    /\ threads' = IF threads[t].should_exit
                    THEN [threads EXCEPT ![t].pc = "exited", ![t].batch = <<>>]
                    ELSE [threads EXCEPT ![t].pc = "dispatching"]
    /\ UNCHANGED <<started, input_thread, current_event_loop_handles,
                   input_timeout, watches, handles_made, alarms, console, arrived,
                   socket, resize_pipe, main_pc, widget_vars>>

\* ReadInputThread.run, one turn of the for loop: a key is sent to the input
\* socket, a size event calls the resize callback, which writes to the resize
\* pipe; after the last record the thread reads again.
ThreadDispatch ==
  \E t \in DOMAIN threads :
    /\ threads[t].pc = "dispatching"
    /\ socket' = IF Head(threads[t].batch) = "key" THEN socket + 1 ELSE socket
    /\ resize_pipe' = IF Head(threads[t].batch) = "resize"
                        THEN resize_pipe + 1 ELSE resize_pipe
    /\ threads' = [threads EXCEPT
                     ![t].batch = Tail(@),
                     ![t].pc = IF Len(threads[t].batch) = 1 THEN "reading"
                               ELSE "dispatching"]
    /\ UNCHANGED <<started, input_thread, current_event_loop_handles,
                   input_timeout, watches, handles_made, alarms, console, arrived,
                   main_pc, widget_vars>>

\* The event loop calls the watch callback, which calls parse_input on the
\* available input: a kept input timeout is removed, the input is taken, and
\* when it ends in an incomplete sequence an alarm is set and kept.
ParseInput ==
  \E incomplete \in BOOLEAN :
    /\ main_pc = "idle"
    /\ current_event_loop_handles \cap watches # {}
    /\ socket + resize_pipe > 0
    /\ socket' = 0
    /\ resize_pipe' = 0
    /\ alarms' = (IF input_timeout THEN Max(0, alarms - 1) ELSE alarms)
                 + (IF incomplete THEN 1 ELSE 0)
    /\ input_timeout' = incomplete
    /\ UNCHANGED <<started, input_thread, current_event_loop_handles, threads,
                   watches, handles_made, console, arrived, main_pc, widget_vars>>

\* The input timeout alarm goes off: the event loop drops it and the callback
\* forgets it.
InputTimeout ==
  /\ main_pc = "idle"
  /\ input_timeout
  /\ alarms > 0
  /\ alarms' = alarms - 1
  /\ input_timeout' = FALSE
  /\ UNCHANGED <<started, input_thread, current_event_loop_handles, threads,
                 watches, handles_made, console, arrived, socket, resize_pipe,
                 main_pc, widget_vars>>

\* A Screen, started or not, beside a ListBox over an empty body.
ConsoleInit ==
  \E st \in BOOLEAN :
    /\ body = <<>>
    /\ wrap_around = FALSE
    /\ focus = 0
    /\ cursor = <<>>
    /\ offset_rows = 0
    /\ inset_fraction = <<0, 1>>
    /\ pref_col = "left"
    /\ set_focus_pending = FirstSelectable
    /\ set_focus_valign_pending = "none"
    /\ maxrow = 1
    /\ presses = 0
    /\ body_kind = "sized"
    /\ rendered_size = 0
    /\ rows_max_cached = 0
    /\ body_id = 0
    /\ shelved = <<>>
    /\ connected = [i \in {0} |-> 1]
    /\ ScreenConstructed(st)

ConsoleNext ==
  \/ HookEventLoop
  \/ UnhookEventLoopUnhooked
  \/ UnhookEventLoopJoin
  \/ UnhookEventLoopJoined
  \/ ConsoleInput
  \/ ThreadRead
  \/ ThreadCheck
  \/ ThreadDispatch
  \/ ParseInput
  \/ InputTimeout

ConsoleSpec == ConsoleInit /\ [][ConsoleNext]_vars

\* ReadInputThread.run of the thread t takes a step.
ThreadStep(t) ==
  /\ t \in DOMAIN threads
  /\ ThreadRead \/ ThreadCheck \/ ThreadDispatch
  /\ threads'[t] # threads[t]

\* The Screen with every reader thread scheduled fairly: a thread that can
\* take a step of run takes it.  The console input and the calls of the main
\* thread are not forced to happen.
ConsoleFairSpec == ConsoleSpec /\ \A t \in 1..MaxThreads : WF_vars(ThreadStep(t))

--------------------------------------------------------------------------
\* The claims.

\* C1 (height conservation): in every reachable state, for every viewport
\* height h >= 1 and focus flag, when the items of the body have at least h
\* rows in total, the Partition calculate_visible returns accounts for exactly
\* h rows: the rows of top.fill, of the focus and of bottom.fill, less the two
\* trims.
C1_HeightConservation ==
  \A h \in 1..MaxRows, f \in BOOLEAN :
    (SumRows(body) >= h /\ CalculateVisible(Self, h, f).s.err = "")
      => /\ ~CalculateVisible(Self, h, f).v.empty
         /\ RenderRows(CalculateVisible(Self, h, f).v) = h

\* C1, its case: the items below the focus ran out before the viewport was
\* filled, and step 4 pulled rows in from above (the focus sits lower than
\* the stored offset put it) so that the Partition still fills the viewport.
C1_PulledFromAbove ==
  /\ SumRows(body) >= maxrow
  /\ CalculateVisible(Self, maxrow, TRUE).s.err = ""
  /\ ~CalculateVisible(Self, maxrow, TRUE).v.empty
  /\ set_focus_pending = NoRequest /\ set_focus_valign_pending = "none"
  /\ GetNext(focus) = None
  /\ CalculateVisible(Self, maxrow, TRUE).v.top.fill # <<>>
  /\ CalculateVisible(Self, maxrow, TRUE).v.middle.focus_rows >= 1
  /\ CalculateVisible(Self, maxrow, TRUE).v.middle.offset > offset_rows
  /\ RenderRows(CalculateVisible(Self, maxrow, TRUE).v) = maxrow

\* C2 (traversal): on a list of N selectable one-row items in a viewport of
\* fewer than N rows, started on the first item, the focus after k presses of
\* "down" is item k for k <= N-1; each of the first N-1 presses reports
\* handled and moves the focus forward by one, and every press made with the
\* last item in focus reports unhandled and leaves the focus where it is.
C2_Traversal ==
  /\ focus = Min(presses, Len(body) - 1)
  /\ presses < Len(body) - 1
       => /\ Keypress(Self, maxrow, "down", FALSE, 0).ret = "handled"
          /\ Keypress(Self, maxrow, "down", FALSE, 0).s.focus = focus + 1
  /\ presses >= Len(body) - 1
       => /\ Keypress(Self, maxrow, "down", FALSE, 0).ret = "unhandled"
          /\ Keypress(Self, maxrow, "down", FALSE, 0).s.focus = focus

\* C2, its case: N-1 presses have brought the focus from the first item to
\* the last one of a list of at least three items, and one more press has
\* been refused.
C2_LastReached ==
  /\ Len(body) >= 3
  /\ presses = Len(body)
  /\ focus = Len(body) - 1
  /\ Keypress(Self, maxrow, "down", FALSE, 0).ret = "unhandled"

\* C3 (idempotence of calculate_visible): in every reachable state, pending
\* focus and alignment requests included, and for either cursor-visibility
\* flag, when a call of calculate_visible with the size of the viewport
\* returns, a second call made right after it with the same arguments returns
\* too, with the same Partition, and leaves the state the first call left.
C3_Idempotent ==
  \A f \in BOOLEAN :
    LET first == CalculateVisible(Self, maxrow, f)
        second == CalculateVisible(first.s, maxrow, f)
    IN first.s.err = ""
         => /\ second.s.err = ""
            /\ second.v = first.v
            /\ second.s = first.s

\* C3, its case: a position request is pending, the first call completes
\* it and moves the focus widget to another row, and the second call returns
\* the Partition of the first.
C3_RequestResolvedOnce ==
  LET first == CalculateVisible(Self, maxrow, TRUE)
      second == CalculateVisible(first.s, maxrow, TRUE)
  IN /\ set_focus_pending.kind = "set"
     /\ set_focus_pending.focus_pos # focus
     /\ first.s.err = ""
     /\ first.s.set_focus_pending = NoRequest
     /\ first.s.offset_rows # offset_rows
     /\ ~first.v.empty
     /\ first.v.middle.focus_pos = focus
     /\ first.v.middle.focus_rows >= 1
     /\ second.s.err = ""
     /\ second.v = first.v

\* C4 as stated (up/down round trip): when every item has a one-column
\* cursor, an "up" press is handled and a "down" press follows it, and
\* change_focus applied no snap adjustment in either press, the focus position
\* and the row offset of the focus widget (middle.offset) are after the two
\* presses what they were before them.
C4_RoundTripAsStated ==
  LET before == CalculateVisible(Self, maxrow, TRUE)
      up == Keypress(Self, maxrow, "up", FALSE, 0)
      down == Keypress([up.s EXCEPT !.snapped = FALSE], maxrow, "down", FALSE, 0)
      after == CalculateVisible(down.s, maxrow, TRUE)
  IN (/\ \A p \in 0..(Len(body) - 1) : HasCursor(p)
      /\ before.s.err = ""
      /\ up.ret = "handled" /\ ~up.s.snapped
      /\ down.ret # "raised" /\ ~down.s.snapped)
       => /\ after.s.err = ""
          /\ after.v.middle.focus_pos = before.v.middle.focus_pos
          /\ after.v.middle.offset = before.v.middle.offset

\* C4 amended (up/down round trip): when every item has a one-column cursor,
\* an "up" press is handled by moving the focus to another item and a "down"
\* press follows it, and change_focus applied no snap adjustment in either
\* press, the "down" press is handled and the focus position is after the two
\* presses what it was before them; the row offset of the focus widget is
\* the same too when the item the "up" press moved to was listed in top.fill
\* before the press, that is when the press did not scroll the viewport.
C4_RoundTrip ==
  LET before == CalculateVisible(Self, maxrow, TRUE)
      up == Keypress(Self, maxrow, "up", FALSE, 0)
      down == Keypress([up.s EXCEPT !.snapped = FALSE], maxrow, "down", FALSE, 0)
      after == CalculateVisible(down.s, maxrow, TRUE)
  IN (/\ \A p \in 0..(Len(body) - 1) : HasCursor(p)
      /\ before.s.err = ""
      /\ up.ret = "handled" /\ ~up.s.snapped
      /\ up.s.focus # before.v.middle.focus_pos
      /\ ~down.s.snapped)
       => /\ down.ret = "handled"
          /\ after.s.err = ""
          /\ after.v.middle.focus_pos = before.v.middle.focus_pos
          /\ (\E i \in 1..Len(before.v.top.fill) :
                before.v.top.fill[i].position = up.s.focus)
               => after.v.middle.offset = before.v.middle.offset

\* C4, its case: with two rows or more in the viewport the focus is on a
\* cursor item below another one that is visible; "up" moves the focus to it
\* and "down" brings the focus back to the row it was on.
C4_UpThenDown ==
  LET before == CalculateVisible(Self, maxrow, TRUE)
      up == Keypress(Self, maxrow, "up", FALSE, 0)
      down == Keypress([up.s EXCEPT !.snapped = FALSE], maxrow, "down", FALSE, 0)
      after == CalculateVisible(down.s, maxrow, TRUE)
  IN /\ \A p \in 0..(Len(body) - 1) : HasCursor(p)
     /\ before.s.err = ""
     /\ up.ret = "handled" /\ ~up.s.snapped
     /\ up.s.focus # before.v.middle.focus_pos
     /\ \E i \in 1..Len(before.v.top.fill) :
          before.v.top.fill[i].position = up.s.focus
     /\ down.ret = "handled" /\ ~down.s.snapped
     /\ before.v.middle.offset > 0
     /\ after.v.middle.focus_pos = before.v.middle.focus_pos
     /\ after.v.middle.offset = before.v.middle.offset

\* C5 (zero-height exclusion from fill lists): in every reachable state, for
\* every viewport height and either flag, no item of height 0 is listed in
\* top.fill or in bottom.fill of the Partition calculate_visible returns.
C5_NoZeroHeightInFill ==
  \A h \in 1..MaxRows, f \in BOOLEAN :
    LET cv == CalculateVisible(Self, h, f)
    IN cv.s.err = ""
         => /\ \A i \in 1..Len(cv.v.top.fill) : cv.v.top.fill[i].rows # 0
            /\ \A i \in 1..Len(cv.v.bottom.fill) : cv.v.bottom.fill[i].rows # 0

\* C6 (zero-height items never gain focus through navigation): in every
\* reachable state whose focus item has a height other than 0, none of the
\* keys up, down, page up, page down and no mouse press leaves an item of
\* height 0 in focus.
C6_NoZeroHeightFocus ==
  (body # <<>> /\ Rows(focus) # 0)
    => /\ \A key \in {"up", "down", "page up", "page down"} :
            Rows(Keypress(Self, maxrow, key, FALSE, 0).s.focus) # 0
       /\ \A button \in {1, 4, 5}, row \in 0..(maxrow - 1), handled \in BOOLEAN :
            (handled => button = 1)
              => Rows(MouseEvent(Self, maxrow, button, row, handled).s.focus) # 0

\* C7 (zero-height items do not change the step count): when the body is a
\* selectable one-row item A, then maybe an item of height 0, then a
\* selectable one-row item B, one "down" press with the focus on A is handled
\* and focuses B on the row below the one A was on (the last row of the
\* viewport when A was on it), and one "up" press with the focus on B is
\* handled and focuses A on the row above the one B was on (the first row
\* when B was on it): the presses do with the item of height 0 between A and
\* B what they do without it.
C7_StepOverZeroHeight ==
  LET before == CalculateVisible(Self, maxrow, TRUE)
      down == Keypress(Self, maxrow, "down", FALSE, 0)
      up == Keypress(Self, maxrow, "up", FALSE, 0)
      B == Len(body) - 1
  IN (/\ Len(body) \in {2, 3}
      /\ Widget(0).rows = 1 /\ Widget(0).sel
      /\ Len(body) = 3 => Widget(1).rows = 0
      /\ Widget(B).rows = 1 /\ Widget(B).sel
      /\ before.s.err = "")
       => /\ before.v.middle.focus_pos = 0
               => /\ down.ret = "handled"
                  /\ CalculateVisible(down.s, maxrow, TRUE).v.middle.focus_pos = B
                  /\ CalculateVisible(down.s, maxrow, TRUE).v.middle.offset
                       = Min(before.v.middle.offset + 1, maxrow - 1)
          /\ before.v.middle.focus_pos = B
               => /\ up.ret = "handled"
                  /\ CalculateVisible(up.s, maxrow, TRUE).v.middle.focus_pos = 0
                  /\ CalculateVisible(up.s, maxrow, TRUE).v.middle.offset
                       = Max(before.v.middle.offset - 1, 0)

\* C7, its case: the focus is on A above the last row of the viewport, an
\* item of height 0 lies between A and B, and "down" focuses B one row below.
C7_SteppedOver ==
  LET before == CalculateVisible(Self, maxrow, TRUE)
      down == Keypress(Self, maxrow, "down", FALSE, 0)
  IN /\ Len(body) = 3
     /\ Widget(0).rows = 1 /\ Widget(0).sel
     /\ Widget(1).rows = 0
     /\ Widget(2).rows = 1 /\ Widget(2).sel
     /\ before.s.err = ""
     /\ before.v.middle.focus_pos = 0
     /\ before.v.middle.offset < maxrow - 1
     /\ down.ret = "handled"
     /\ down.s.focus = 2
     /\ down.s.offset_rows = before.v.middle.offset + 1

\* C8 (focus invariant): in every reachable state, after a handled up, down,
\* page up or page down no focus or alignment request is left pending and
\* the next layout has the walker's focus as its focus; and when page up or
\* page down returns because a cut off selectable widget was chosen, the
\* walker's focus is none of the candidates the handler tried and discarded
\* for reducing the scroll amount.
C8_FocusIsSelected ==
  LET cv == CalculateVisible(Self, maxrow, TRUE)
      pu == PageUpCandidates(cv.v, maxrow)
      pd == PageDownCandidates(cv.v, maxrow)
      up == PageUpSearched(cv.s, maxrow, pu)
      down == PageDownSearched(cv.s, maxrow, pd)
  IN /\ \A key \in {"up", "down", "page up", "page down"} :
          LET r == Keypress(Self, maxrow, key, FALSE, 0)
          IN r.ret = "handled"
               => /\ r.s.set_focus_pending = NoRequest
                  /\ r.s.set_focus_valign_pending = "none"
                  /\ CalculateVisible(r.s, maxrow, TRUE).s.err = ""
                  /\ CalculateVisible(r.s, maxrow, TRUE).v.middle.focus_pos
                       = r.s.focus
     /\ (/\ cv.s.err = "" /\ ~cv.v.empty
         /\ Keypress(Self, maxrow, "page up", FALSE, 0).ret = "handled"
         /\ up.cut_off_selectable_chosen /\ ~up.returned)
          => \A i \in up.overshot :
               pu.t[i].pos # Keypress(Self, maxrow, "page up", FALSE, 0).s.focus
     /\ (/\ cv.s.err = "" /\ ~cv.v.empty
         /\ Keypress(Self, maxrow, "page down", FALSE, 0).ret = "handled"
         /\ down.cut_off_selectable_chosen /\ ~down.returned)
          => \A i \in down.overshot :
               pd.t[i].pos # Keypress(Self, maxrow, "page down", FALSE, 0).s.focus

\* C9 (scenario): with five selectable one-row items in a viewport of three
\* rows and the focus on item 0, before any press calculate_visible returns
\* middle.offset 0, an empty top.fill, items 1 and 2 with one row each as
\* bottom.fill and bottom.trim 0; after two presses of "down" the focus is
\* item 2 and its row offset is 2.
C9_Scenario ==
  (Len(body) = 5 /\ maxrow = 3)
    => /\ presses = 0
            => \A f \in BOOLEAN :
                 LET cv == CalculateVisible(Self, maxrow, f)
                 IN /\ cv.s.err = ""
                    /\ cv.v.middle.focus_pos = 0
                    /\ cv.v.middle.offset = 0
                    /\ cv.v.top.fill = <<>>
                    /\ cv.v.bottom.fill = <<[position |-> 1, rows |-> 1],
                                            [position |-> 2, rows |-> 1]>>
                    /\ cv.v.bottom.trim = 0
       /\ presses = 2
            => /\ focus = 2
               /\ CalculateVisible(Self, maxrow, TRUE).v.middle.focus_pos = 2
               /\ CalculateVisible(Self, maxrow, TRUE).v.middle.offset = 2

\* C9, its case: "down" has been pressed twice on the five items in three
\* rows and the focus is on item 2, on the last row.
C9_TwoPresses ==
  /\ Len(body) = 5 /\ maxrow = 3
  /\ presses = 2
  /\ focus = 2
  /\ offset_rows = 2

C11_UnhandledAtEnds ==
  \A key \in {"up", "down"} :
    LET start == ResolvePending(Self, maxrow, TRUE)
        cv == CalculateVisible(start, maxrow, TRUE)
        r == Keypress(Self, maxrow, key, FALSE, 0)
    IN (body # <<>> /\ r.ret = "unhandled")
         => /\ r.s.err = ""
            /\ r.s.focus = start.focus
            /\ r.s.offset_rows = start.offset_rows
            /\ r.s.inset_fraction = start.inset_fraction
            /\ r.s.pref_col = start.pref_col
            /\ key = "up"
                 => cv.v.middle.offset - SumRows(SubSeq(body, 1, start.focus)) >= 0
            /\ key = "down"
                 => cv.v.middle.offset
                      + SumRows(SubSeq(body, start.focus + 1, Len(body))) <= maxrow

\* C11, its case: the focus is on the last of several items, below the first
\* row of the viewport, and "down" is reported unhandled.
C11_RefusedAtTheEnd ==
  /\ Len(body) >= 2
  /\ set_focus_pending = NoRequest /\ set_focus_valign_pending = "none"
  /\ focus = Len(body) - 1
  /\ Rows(focus) >= 1
  /\ offset_rows >= 1
  /\ Keypress(Self, maxrow, "down", FALSE, 0).ret = "unhandled"
  /\ Keypress(Self, maxrow, "down", FALSE, 0).s.offset_rows = offset_rows

\* C12 (self-loop detection): in every reachable state in which the walker's
\* step from the focus position returns the focus position itself, a
\* calculate_visible or a render that returns has not treated the step as a
\* step to another widget: its Partition lists the focus widget in neither
\* fill list (it has raised ListBoxError instead when it had rows to fill).
C12_SelfLoopDetected ==
  (body # <<>> /\ GetNext(focus) = focus /\ GetPrev(focus) = focus)
    => \A h \in 1..MaxRows, f \in BOOLEAN :
         LET cv == CalculateVisible(Self, h, f)
         IN /\ cv.s.err = ""
                 => /\ \A i \in 1..Len(cv.v.top.fill) :
                         cv.v.top.fill[i].position # cv.v.middle.focus_pos
                    /\ \A i \in 1..Len(cv.v.bottom.fill) :
                         cv.v.bottom.fill[i].position # cv.v.middle.focus_pos
            /\ (Render(Self, h, f).s.err = "" /\ Rows(focus) < h)
                 => cv.s.err = "ListBoxError"

\* C13 (termination): in every reachable state, calculate_visible, render and
\* the four key handlers return or raise for every viewport height; none of
\* them runs for ever.
C13_Terminates ==
  \A h \in 1..MaxRows :
    /\ \A f \in BOOLEAN : /\ CalculateVisible(Self, h, f).s.err # "never returns"
                          /\ Render(Self, h, f).s.err # "never returns"
    /\ \A key \in {"up", "down", "page up", "page down"} :
         Keypress(Self, h, key, FALSE, 0).s.err # "never returns"

\* C14 as stated (shift_focus rejects out-of-range offsets atomically): in
\* every reachable state with a focus widget, shift_focus(size, k) raises
\* ListBoxError when k is at least the viewport height or at most minus the
\* rows of the focus widget, and then it leaves the focus position,
\* offset_rows, inset_fraction and the two requests as they were.
C14_ShiftFocusRejectsAsStated ==
  \A k \in (-MaxItemRows - 1)..(MaxRows + 1) :
    LET r == ShiftFocus(Self, maxrow, k)
    IN (body # <<>> /\ (k >= maxrow \/ k <= -Rows(focus)))
         => /\ r.err = "ListBoxError"
            /\ [r EXCEPT !.err = ""] = Self

\* C14 amended: in every reachable state with a focus widget,
\* shift_focus(size, k) raises ListBoxError when k is at least the viewport
\* height, or when k is negative and at most minus the rows of the focus
\* widget, and then it leaves the focus position, offset_rows, inset_fraction
\* and the two requests as they were; shift_focus(size, 0) is accepted
\* whatever the rows of the focus widget are, 0 included.
C14_ShiftFocusRejects ==
  /\ \A k \in (-MaxItemRows - 1)..(MaxRows + 1) :
       LET r == ShiftFocus(Self, maxrow, k)
       IN (body # <<>> /\ (k >= maxrow \/ (k < 0 /\ k <= -Rows(focus))))
            => /\ r.err = "ListBoxError"
               /\ [r EXCEPT !.err = ""] = Self
  /\ ShiftFocus(Self, maxrow, 0).err = ""

\* C14, its case: the focus widget has rows and sits below the first row of
\* the viewport; shift_focus to the row after the last one and shift_focus
\* by all the rows of the widget are both refused and change nothing.
C14_Refused ==
  /\ body # <<>>
  /\ Rows(focus) >= 1
  /\ offset_rows >= 1
  /\ ShiftFocus(Self, maxrow, maxrow).err = "ListBoxError"
  /\ ShiftFocus(Self, maxrow, maxrow).offset_rows = offset_rows
  /\ ShiftFocus(Self, maxrow, -Rows(focus)).err = "ListBoxError"
  /\ ShiftFocus(Self, maxrow, -Rows(focus)).inset_fraction = inset_fraction

\* C15 (shift_focus round trip): in every reachable state with a focus
\* widget, for every k above minus the rows of the focus widget and below the
\* viewport height, shift_focus(size, k) returns, leaves the focus position
\* alone, and get_focus_offset_inset(size) then returns (k, 0) when k >= 0
\* and (0, -k) when k < 0.
C15_ShiftFocusRoundTrip ==
  \A k \in (-MaxItemRows - 1)..(MaxRows + 1) :
    LET r == ShiftFocus(Self, maxrow, k)
        oi == GetFocusOffsetInset(r)
    IN (body # <<>> /\ -Rows(focus) < k /\ k < maxrow)
         => /\ r.err = ""
            /\ r.focus = focus
            /\ oi.err = ""
            /\ oi.offset_rows = (IF k >= 0 THEN k ELSE 0)
            /\ oi.inset_rows = (IF k >= 0 THEN 0 ELSE -k)
            /\ oi.offset_rows - oi.inset_rows = k

\* C15, its case: shift_focus(size, -1) has cut the first row off a focus
\* widget of two rows, and get_focus_offset_inset returns (0, 1).
C15_Shifted ==
  /\ body # <<>>
  /\ Rows(focus) = 2
  /\ offset_rows = 0
  /\ inset_fraction = <<1, 2>>
  /\ ShiftFocus(Self, maxrow, -1) = Self
  /\ GetFocusOffsetInset(Self) = [err |-> "", offset_rows |-> 0, inset_rows |-> 1]

\* C16 (Viewport State invariant): in every state reached by key presses,
\* mouse presses, set_focus, set_focus_valign, shift_focus and change_focus
\* calls, offset_rows is a natural number, inset_fraction is a pair (n, d)
\* with 0 <= n < d, and inset_fraction is (0, 1) whenever offset_rows > 0.
C16_ViewportState ==
  /\ offset_rows \in Nat
  /\ inset_fraction[1] \in Nat /\ inset_fraction[2] \in Nat
  /\ inset_fraction[1] < inset_fraction[2]
  /\ offset_rows > 0 => inset_fraction = <<0, 1>>

\* C16, its case: rows are cut off the top of the focus widget, which is
\* selectable, and no request is pending: inset_fraction describes the
\* displacement and offset_rows is 0.
C16_Inset ==
  /\ body # <<>>
  /\ set_focus_pending = NoRequest /\ set_focus_valign_pending = "none"
  /\ Selectable(focus)
  /\ inset_fraction[1] >= 1
  /\ offset_rows = 0

\* C17 (renderer row count): in every reachable state, for every viewport
\* height and either focus flag, when the layout of render's
\* calculate_visible returns, render raises neither "contents too long" nor
\* "contents too short": it returns a canvas of exactly as many rows as the
\* viewport has and leaves the state the layout left.
C17_RenderRowCount ==
  \A h \in 1..MaxRows, f \in BOOLEAN :
    LET cv == CalculateVisible(Self, h, f)
        r == Render(Self, h, f)
    IN cv.s.err = ""
         => /\ r.s.err = ""
            /\ r.rows = h
            /\ r.s = cv.s

\* C17, its case: rows are cut off the widget at the top of the viewport and
\* off the one at its bottom, and render returns as many rows as the
\* viewport has.
C17_Trimmed ==
  /\ set_focus_pending = NoRequest /\ set_focus_valign_pending = "none"
  /\ CalculateVisible(Self, maxrow, TRUE).s.err = ""
  /\ CalculateVisible(Self, maxrow, TRUE).v.top.trim >= 1
  /\ CalculateVisible(Self, maxrow, TRUE).v.bottom.trim >= 1
  /\ Render(Self, maxrow, TRUE).s.err = ""
  /\ Render(Self, maxrow, TRUE).rows = maxrow

C19_AlignmentApplied ==
  \A valign \in {"top", "bottom"} :
    LET cv == CalculateVisible(SetFocusValign(Self, valign), maxrow, TRUE)
        p == cv.v.middle.focus_pos
        RowsOf(Q) == Cardinality({x \in Q \X (1..MaxItemRows) : x[2] <= Rows(x[1])})
    IN (/\ cv.s.err = ""
        /\ ~cv.v.empty
        /\ cv.v.middle.focus_rows <= maxrow
        /\ valign = "top" => RowsOf(p..(Len(body) - 1)) >= maxrow
        /\ valign = "bottom" => RowsOf(0..p) >= maxrow)
         => /\ cv.s.set_focus_valign_pending = "none"
            /\ cv.v.middle.offset = (IF valign = "top" THEN 0
                                     ELSE maxrow - cv.v.middle.focus_rows)

C21_FirstSelectable ==
  LET RowsOf(Q) == Cardinality({x \in Q \X (1..MaxItemRows) : x[2] <= Rows(x[1])})
      base == offset_rows - (Rows(focus) * inset_fraction[1]) \div inset_fraction[2]
      RowOf(q) == base + RowsOf(focus..(q - 1))
      eligible == {q \in (focus + 1)..(Len(body) - 1) :
                     /\ Selectable(q)
                     /\ Rows(q) >= 1
                     /\ RowOf(q) + Rows(q) <= maxrow}
      first == CHOOSE q \in eligible : \A r \in eligible : q <= r
  IN (/\ body # <<>>
      /\ set_focus_pending = FirstSelectable
      /\ set_focus_valign_pending = "none")
       => \A f \in BOOLEAN :
            LET cv == CalculateVisible(Self, maxrow, f)
            IN cv.s.err = ""
                 => /\ cv.s.set_focus_pending = NoRequest
                    /\ IF Selectable(focus)
                         THEN /\ cv.s.focus = focus
                              /\ cv.s.offset_rows = offset_rows
                              /\ cv.s.inset_fraction = inset_fraction
                       ELSE IF eligible = {}
                         THEN cv.s.focus = focus
                       ELSE /\ cv.s.focus = first
                            /\ cv.v.middle.offset = RowOf(first)

\* C21, its case: the focus of a fresh ListBox is not selectable, a selectable
\* item under it is cut by the bottom edge or is not the nearest, and the first
\* layout moves the focus to a selectable item on the row it had.
C21_MovedToSelectable ==
  /\ Len(body) = 3 /\ maxrow = 2
  /\ set_focus_pending = FirstSelectable
  /\ ~Selectable(0) /\ Selectable(1) /\ Selectable(2)
  /\ Rows(0) = 1 /\ Rows(1) = 1
  /\ CalculateVisible(Self, maxrow, TRUE).s.err = ""
  /\ CalculateVisible(Self, maxrow, TRUE).s.focus = 1
  /\ CalculateVisible(Self, maxrow, TRUE).v.middle.offset = 1

\* C22 (InvalidPosition): in every reachable state, set_focus(position) with a
\* position outside 0 <= position < len(body), or on an empty ListBox, raises
\* IndexError in the call itself, and the walker's focus position is the one
\* it was before the call.
C22_InvalidPosition ==
  \A position \in (-2)..(Len(body) + 1), coming_from \in {"above", "below", "none"} :
    (body = <<>> \/ position < 0 \/ position >= Len(body))
      => /\ SetFocus(Self, position, coming_from).err = "IndexError"
         /\ SetFocus(Self, position, coming_from).focus = focus

\* C22, its case: the focus has been moved off the first item, and set_focus
\* with the position one past the last item and with position -1 raises and
\* leaves the focus where it is.
C22_RejectedAwayFromStart ==
  /\ Len(body) >= 2
  /\ focus >= 1
  /\ SetFocus(Self, Len(body), "none").err = "IndexError"
  /\ SetFocus(Self, Len(body), "none").focus = focus
  /\ SetFocus(Self, -1, "above").err = "IndexError"
  /\ SetFocus(Self, -1, "above").focus = focus

\* C23 (ScrollUnsupported is reported eagerly): in every reachable state
\* whose body is wrap-around, lacks one of the methods get_focus, set_focus,
\* get_next, get_prev, or is not Sized, get_scrollpos, rows_max,
\* get_first_visible_pos and get_visible_amount, with or without a size,
\* raise ListBoxError and leave the ListBox as it was: the focus, the offset,
\* the inset, the preferred column, the pending requests, the remembered
\* rendered size and the cached row total.
C23_ScrollUnsupported ==
  (wrap_around \/ body_kind # "sized")
    => \A f \in BOOLEAN :
         /\ \A size \in {None, maxrow} :
              \A q \in {GetScrollpos(Self, size, f), RowsMax(Self, size, f)} :
                /\ q.s = Raise(Self, "ListBoxError")
                /\ q.rendered_size = rendered_size
                /\ q.rows_max_cached = rows_max_cached
         /\ \A query \in {"get_first_visible_pos", "get_visible_amount"} :
              /\ GetVisible(query, Self, maxrow, f).s = Raise(Self, "ListBoxError")
              /\ GetVisible(query, Self, maxrow, f).rendered_size = rendered_size
              /\ GetVisible(query, Self, maxrow, f).rows_max_cached
                   = rows_max_cached

\* C23, its case: a wrap-around body whose layout would complete the pending
\* first-selectable request and move the focus, no size remembered yet, and
\* get_scrollpos with a size raises.
C23_RefusedBeforeLayout ==
  /\ wrap_around
  /\ set_focus_pending = FirstSelectable
  /\ rendered_size = 0
  /\ CalculateVisible(Self, maxrow, TRUE).s.err = ""
  /\ CalculateVisible(Self, maxrow, TRUE).s.focus # focus
  /\ GetScrollpos(Self, maxrow, TRUE).s.err = "ListBoxError"
  /\ GetScrollpos(Self, maxrow, TRUE).s.focus = focus
  /\ GetScrollpos(Self, maxrow, TRUE).rendered_size = 0

\* C24 (modified invalidates caches): in every reachable state, so after any
\* widgets were appended to the body or removed from it, when the body allows
\* the scroll queries rows_max() called without a size returns the total of
\* the rows of the widgets the body holds now.
C24_RowsMaxCurrent ==
  CheckSupportScrolling = ""
    => \A f \in BOOLEAN :
         /\ RowsMax(Self, None, f).s.err = ""
         /\ RowsMax(Self, None, f).ret = SumRows(body)

\* C25 (subscription follows the body): in every reachable state, however
\* many times the body was replaced, a "modified" signal of the walker that
\* is the body calls the ListBox's _invalidate exactly once and a "modified"
\* signal of any other walker, a previous body included, does not call it.
C25_SubscriptionFollowsBody ==
  \A i \in DOMAIN connected :
    Invalidations(i) = (IF i = body_id THEN 1 ELSE 0)

\* C25, its case: the body has been replaced, the first body is shelved and
\* not connected, and the walker in its place is connected once.
C25_Replaced ==
  /\ body_id # 0
  /\ 0 \in DOMAIN shelved
  /\ shelved[0].focus # 0
  /\ Invalidations(0) = 0
  /\ Invalidations(body_id) = 1

\* C26 (ends_visible): in every reachable state, when ends_visible returns
\* normally: for an empty body it returns ['top', 'bottom']; otherwise 'top'
\* is in the list exactly when the rows of the items before the focus are no
\* more than the rows the layout leaves above the focus (no row of the
\* content lies above the viewport), 'bottom' is in it exactly when the focus
\* and the items after it end within the viewport (no row of the content lies
\* below it), and the list is one of [], ['top'], ['bottom'],
\* ['top', 'bottom'].
C26_EndsVisible ==
  \A f \in BOOLEAN :
    LET r == EndsVisible(Self, maxrow, f)
        v == CalculateVisible(Self, maxrow, f).v
        has(x) == \E i \in 1..Len(r.ret) : r.ret[i] = x
    IN r.s.err = ""
         => /\ r.ret \in {<<>>, <<"top">>, <<"bottom">>, <<"top", "bottom">>}
            /\ body = <<>> => r.ret = <<"top", "bottom">>
            /\ body # <<>>
                 => /\ has("top")
                         <=> SumRows(SubSeq(body, 1, v.middle.focus_pos))
                               <= v.middle.offset
                    /\ has("bottom")
                         <=> v.middle.offset
                               + SumRows(SubSeq(body, v.middle.focus_pos + 1,
                                                Len(body))) <= maxrow

C28_PageDistance ==
  LET N == Len(body)
      H == maxrow
      i == ResolvePending(Self, maxrow, TRUE).focus
      down == Keypress(Self, maxrow, "page down", FALSE, 0)
      up == Keypress(Self, maxrow, "page up", FALSE, 0)
  IN /\ down.ret = "handled"
     /\ down.s.focus = Min(i + H, N - 1)
     /\ up.ret = "handled"
     /\ up.s.focus = Max(i - H, 0)

\* C28, its case: six items in a viewport of three rows, the focus on the
\* second item in the middle row: page down moves it three items down, to the
\* fifth, and from the fifth page up moves it back by three.
C28_PagedByViewport ==
  /\ Len(body) = 6 /\ maxrow = 3
  /\ set_focus_pending = NoRequest
  /\ set_focus_valign_pending = "none"
  /\ focus = 1 /\ offset_rows = 1
  /\ Keypress(Self, maxrow, "page down", FALSE, 0).s.focus = 4
  /\ Keypress(Keypress(Self, maxrow, "page down", FALSE, 0).s, maxrow,
              "page up", FALSE, 0).s.focus = 1

\* The states the queries leave behind when they return normally: of
\* calculate_visible, ends_visible, get_scrollpos (with a size and without),
\* get_first_visible_pos, get_visible_amount and get_cursor_coords.  Each is
\* paired with the state in which the pending requests are completed for the
\* size and focus flag of the query.
C29_Queries ==
  UNION {
    {<<CalculateVisible(Self, maxrow, f).s, ResolvePending(Self, maxrow, f)>>,
     <<EndsVisible(Self, maxrow, f).s, ResolvePending(Self, maxrow, f)>>,
     <<GetScrollpos(Self, maxrow, f).s, ResolvePending(Self, maxrow, f)>>,
     <<GetScrollpos(Self, None, f).s, ResolvePending(Self, rendered_size, f)>>,
     <<GetVisible("get_first_visible_pos", Self, maxrow, f).s,
       ResolvePending(Self, maxrow, f)>>,
     <<GetVisible("get_visible_amount", Self, maxrow, f).s,
       ResolvePending(Self, maxrow, f)>>,
     <<GetCursorCoords(Self, maxrow).s, ResolvePending(Self, maxrow, TRUE)>>}
    : f \in BOOLEAN}

\* C29 (queries are read-only), as stated: in every reachable state, a query
\* that returns normally leaves the focus position, offset_rows,
\* inset_fraction and pref_col as they were.
C29_QueriesReadOnly ==
  \A q \in C29_Queries :
    q[1].err = ""
      => /\ q[1].focus = focus
         /\ q[1].offset_rows = offset_rows
         /\ q[1].inset_fraction = inset_fraction
         /\ q[1].pref_col = pref_col

\* C29, amended: in every reachable state, a query that returns normally
\* leaves the focus position, offset_rows, inset_fraction and pref_col as they
\* are once the pending focus and alignment requests are completed; with no
\* request pending, or on an empty body, it leaves them as they were.
C29_QueriesCompleteRequestsOnly ==
  \A q \in C29_Queries :
    q[1].err = ""
      => /\ q[1].focus = q[2].focus
         /\ q[1].offset_rows = q[2].offset_rows
         /\ q[1].inset_fraction = q[2].inset_fraction
         /\ q[1].pref_col = q[2].pref_col
         /\ ((set_focus_pending = NoRequest /\ set_focus_valign_pending = "none")
               \/ body = <<>>)
              => /\ q[1].focus = focus
                 /\ q[1].offset_rows = offset_rows
                 /\ q[1].inset_fraction = inset_fraction
                 /\ q[1].pref_col = pref_col

\* C29, its case: a rows_max query has run and left the constructor's request
\* pending, the focus widget is not selectable and the next one is: the
\* layout behind each query moves the focus to it.
C29_QueryCompletesRequest ==
  /\ rows_max_cached > 0
  /\ set_focus_pending = FirstSelectable
  /\ Len(body) = 2 /\ focus = 0
  /\ ~Selectable(0) /\ Selectable(1)
  /\ \A q \in C29_Queries : q[1].err = "" /\ q[1].focus = 1

\* C30 (unhook_event_loop removes every hook): every return of
\* unhook_event_loop leaves the event loop without any of the watch-file
\* handles the Screen kept from the preceding hook_event_loop, without an
\* input-timeout alarm, and with the reader thread that was in _input_thread
\* no longer running.
C30_UnhookRemovesEveryHook ==
  [][/\ UnhookEventLoopJoined
          => /\ watches' \cap current_event_loop_handles = {}
             /\ alarms' = 0
             /\ ~input_timeout'
             /\ threads'[input_thread].pc = "exited"
     /\ UnhookEventLoopUnhooked
          => /\ watches' \cap current_event_loop_handles = {}
             /\ alarms' = 0
             /\ ~input_timeout']_vars

\* C36 (focus offset agrees with the rows above it): in every reachable state
\* of a ListBox over a non-wrapping body, the Partition calculate_visible
\* returns has middle.offset equal to the rows of top.fill less top.trim
\* (-top.trim when top.fill is empty), and top.fill and bottom.fill are,
\* nearest first, consecutive predecessors and successors of the focus among
\* the items that have rows, each with its rows, none skipped or repeated.
C36_OffsetAgreesWithFill ==
  \A f \in BOOLEAN :
    LET cv == CalculateVisible(Self, maxrow, f)
        fp == cv.v.middle.focus_pos
        above == {q \in 0..(fp - 1) : Rows(q) >= 1}
        below == {q \in (fp + 1)..(Len(body) - 1) : Rows(q) >= 1}
        tf == cv.v.top.fill
        bf == cv.v.bottom.fill
    IN (cv.s.err = "" /\ ~cv.v.empty)
         => /\ cv.v.middle.offset = SumRows(tf) - cv.v.top.trim
            /\ \A i \in 1..Len(tf) :
                 /\ tf[i].position \in above
                 /\ tf[i].rows = Rows(tf[i].position)
                 /\ Cardinality({q \in above : q > tf[i].position}) = i - 1
            /\ \A i \in 1..Len(bf) :
                 /\ bf[i].position \in below
                 /\ bf[i].rows = Rows(bf[i].position)
                 /\ Cardinality({q \in below : q < bf[i].position}) = i - 1

\* C32 (at least one row of the focus is visible): in every reachable state,
\* a stored offset_rows of maxrow or more included, when calculate_visible
\* returns a Partition whose focus item has rows, -focus_rows < middle.offset
\* and middle.offset < maxrow.
C32_FocusRowVisible ==
  \A f \in BOOLEAN :
    LET cv == CalculateVisible(Self, maxrow, f)
    IN (cv.s.err = "" /\ ~cv.v.empty /\ cv.v.middle.focus_rows >= 1)
         => /\ -cv.v.middle.focus_rows < cv.v.middle.offset
            /\ cv.v.middle.offset < maxrow

\* C32, its case: the viewport has shrunk under a focus item that was on a
\* row it no longer has, and the Partition puts the item on the last row.
C32_ClampedToLastRow ==
  /\ set_focus_pending = NoRequest /\ set_focus_valign_pending = "none"
  /\ GetFocus(Self) # None
  /\ Rows(focus) >= 1
  /\ offset_rows >= maxrow
  /\ CalculateVisible(Self, maxrow, FALSE).s.err = ""
  /\ CalculateVisible(Self, maxrow, FALSE).v.middle.offset = maxrow - 1

\* C33 (cursor stays visible): in every reachable state with a viewport of
\* one row or more, when calculate_visible is called with the focus flag and
\* returns a Partition whose focus item is selectable and reports a cursor on
\* its row cy: 0 <= middle.offset + cy < maxrow; and when the cursor row is
\* inside the viewport for the stored offset (the one get_focus_offset_inset
\* gives once the pending requests are completed, brought under maxrow), the
\* Partition is the one calculate_visible returns without the focus flag but
\* for the cursor it reports: the focus item is where it would be with no
\* cursor to show.
C33_CursorStaysVisible ==
  LET cv == CalculateVisible(Self, maxrow, TRUE)
      plain == CalculateVisible(Self, maxrow, FALSE)
      fp == cv.v.middle.focus_pos
      cy == cv.v.middle.cursor
      r0 == ResolvePending(Self, maxrow, TRUE)
      oi == GetFocusOffsetInset(r0)
      stored == Min(oi.offset_rows, maxrow - 1) - oi.inset_rows
  IN (cv.s.err = "" /\ ~cv.v.empty /\ cy # None)
       => /\ 0 <= cv.v.middle.offset + cy
          /\ cv.v.middle.offset + cy < maxrow
          /\ (0 <= stored + cy /\ stored + cy < maxrow
                /\ r0 = ResolvePending(Self, maxrow, FALSE))
               => /\ cv.v.middle.offset = plain.v.middle.offset
                  /\ cv.v.top = plain.v.top
                  /\ cv.v.bottom = plain.v.bottom

\* C33, its case: the cursor of the focus item is on a row under the bottom
\* edge for the stored offset, and the Partition with the focus flag has the
\* item higher than the one without, the cursor on a row of the viewport.
C33_CursorBroughtIn ==
  /\ set_focus_pending = NoRequest /\ set_focus_valign_pending = "none"
  /\ GetFocus(Self) # None
  /\ HasCursor(focus)
  /\ offset_rows + cursor[focus] >= maxrow
  /\ CalculateVisible(Self, maxrow, TRUE).s.err = ""
  /\ CalculateVisible(Self, maxrow, FALSE).s.err = ""
  /\ CalculateVisible(Self, maxrow, TRUE).v.middle.offset
       < CalculateVisible(Self, maxrow, FALSE).v.middle.offset
  /\ CalculateVisible(Self, maxrow, TRUE).v.middle.offset + cursor[focus] = maxrow - 1

\* C34 (snap keeps a newly focused selectable item in view): in every
\* reachable state, when keypress "up" or "down", not consumed by the focus
\* widget, is handled and leaves the focus on another item than the one the
\* completed requests gave, that item selectable and of maxrow rows at most,
\* the next Partition has 0 <= middle.offset and
\* middle.offset + focus_rows <= maxrow.
C34_SnapKeepsInView ==
  LET r0 == ResolvePending(Self, maxrow, TRUE)
  IN \A key \in {"up", "down"}, f \in BOOLEAN :
       LET r == Keypress(Self, maxrow, key, FALSE, 0)
           cv == CalculateVisible(r.s, maxrow, f)
       IN (/\ r.ret = "handled"
           /\ r.s.focus # r0.focus
           /\ Selectable(r.s.focus)
           /\ Rows(r.s.focus) <= maxrow
           /\ cv.s.err = "")
            => /\ 0 <= cv.v.middle.offset
               /\ cv.v.middle.offset + cv.v.middle.focus_rows <= maxrow

\* C34, its case: the item under the focus is selectable, has two rows and is
\* cut by the bottom edge; "down" makes it the focus and the next Partition
\* shows both its rows.
C34_SnappedIntoView ==
  /\ set_focus_pending = NoRequest /\ set_focus_valign_pending = "none"
  /\ GetFocus(Self) # None /\ focus + 1 < Len(body)
  /\ Selectable(focus + 1) /\ Rows(focus + 1) = 2 /\ maxrow >= 2
  /\ CalculateVisible(Self, maxrow, TRUE).s.err = ""
  /\ CalculateVisible(Self, maxrow, TRUE).v.bottom.trim = 1
  /\ CalculateVisible(Self, maxrow, TRUE).v.bottom.fill # <<>>
  /\ CalculateVisible(Self, maxrow, TRUE).v.bottom.fill[1].position = focus + 1
  /\ Len(CalculateVisible(Self, maxrow, TRUE).v.bottom.fill) = 1
  /\ Keypress(Self, maxrow, "down", FALSE, 0).ret = "handled"
  /\ Keypress(Self, maxrow, "down", FALSE, 0).s.focus = focus + 1
  /\ CalculateVisible(Keypress(Self, maxrow, "down", FALSE, 0).s, maxrow, TRUE)
       .v.middle.offset = maxrow - 2

\* The viewport row of every item with rows that a Partition shows: the set
\* of the pairs <<position, row>>.
Placed(v) ==
  {<<v.middle.focus_pos, v.middle.offset>>}
  \cup {<<v.top.fill[i].position,
          v.middle.offset - SumRows(SubSeq(v.top.fill, 1, i))>> :
          i \in {j \in 1..Len(v.top.fill) : v.top.fill[j].rows >= 1}}
  \cup {<<v.bottom.fill[i].position,
          v.middle.offset + v.middle.focus_rows
            + SumRows(SubSeq(v.bottom.fill, 1, i - 1))>> :
          i \in 1..Len(v.bottom.fill)}

\* C35 (up and down move to the nearest visible selectable item without
\* scrolling): in every reachable state whose Partition (the focus flag set)
\* has a selectable item with rows in bottom.fill, keypress "down", not
\* consumed by the focus widget, is handled and makes the nearest such item
\* the focus; when that item ends within the viewport, the next Partition has
\* every item with rows on the viewport row it had.  The same for "up" and
\* top.fill, the item starting within the viewport.
C35_NearestVisibleSelectable ==
  LET cv == CalculateVisible(Self, maxrow, TRUE)
      bf == cv.v.bottom.fill
      tf == cv.v.top.fill
      selb == {i \in 1..Len(bf) : Selectable(bf[i].position) /\ bf[i].rows >= 1}
      selt == {i \in 1..Len(tf) : Selectable(tf[i].position) /\ tf[i].rows >= 1}
      ib == CHOOSE i \in selb : \A j \in selb : i <= j
      it == CHOOSE i \in selt : \A j \in selt : i <= j
      rowb == cv.v.middle.offset + cv.v.middle.focus_rows
                + SumRows(SubSeq(bf, 1, ib - 1))
      rowt == cv.v.middle.offset - SumRows(SubSeq(tf, 1, it))
      down == Keypress(Self, maxrow, "down", FALSE, 0)
      up == Keypress(Self, maxrow, "up", FALSE, 0)
      old == IF GetFocus(cv.s) # None /\ Rows(GetFocus(cv.s)) >= 1
               THEN Placed(cv.v)
               ELSE Placed(cv.v) \ {<<cv.v.middle.focus_pos, cv.v.middle.offset>>}
  IN (cv.s.err = "" /\ ~cv.v.empty)
       => /\ selb # {}
               => /\ down.ret = "handled"
                  /\ down.s.focus = bf[ib].position
                  /\ rowb + bf[ib].rows <= maxrow
                       => \A f \in BOOLEAN :
                            LET n == CalculateVisible(down.s, maxrow, f)
                            IN /\ n.s.err = ""
                               /\ n.v.middle.offset = rowb
                               /\ Placed(n.v) = old
          /\ selt # {}
               => /\ up.ret = "handled"
                  /\ up.s.focus = tf[it].position
                  /\ rowt >= 0
                       => \A f \in BOOLEAN :
                            LET n == CalculateVisible(up.s, maxrow, f)
                            IN /\ n.s.err = ""
                               /\ n.v.middle.offset = rowt
                               /\ Placed(n.v) = old

\* C35, its case: three items of one row in a viewport of three rows, the
\* focus on the last, the one above it not selectable and the first one
\* selectable: "up" makes the first item the focus and the next Partition has
\* the three items on the rows they had.
C35_SkippedToSelectable ==
  /\ set_focus_pending = NoRequest /\ set_focus_valign_pending = "none"
  /\ Len(body) = 3 /\ maxrow = 3 /\ focus = 2 /\ offset_rows = 2
  /\ Selectable(0) /\ ~Selectable(1)
  /\ Rows(0) = 1 /\ Rows(1) = 1 /\ Rows(2) = 1
  /\ Keypress(Self, maxrow, "up", FALSE, 0).ret = "handled"
  /\ Keypress(Self, maxrow, "up", FALSE, 0).s.focus = 0
  /\ Placed(CalculateVisible(Keypress(Self, maxrow, "up", FALSE, 0).s,
                             maxrow, TRUE).v)
       = {<<0, 0>>, <<1, 1>>, <<2, 2>>}

\* C38 (a failed set_focus leaves the deferred request untouched): in every
\* reachable state, when set_focus(position) raises because the body is
\* empty or has no such position, set_focus_pending is what it was before the
\* call; and when the first-selectable request of the constructor was pending,
\* the layout after the failed call gives the focus the layout without it
\* gives.
C38_FailedSetFocusKeepsRequest ==
  \A position \in (-2)..(Len(body) + 1), coming_from \in {"above", "below", "none"} :
    LET after == SetFocus(Self, position, coming_from)
        caught == [after EXCEPT !.err = ""]
    IN after.err = "IndexError"
         => /\ after.set_focus_pending = set_focus_pending
            /\ set_focus_pending = FirstSelectable
                 => \A f \in BOOLEAN :
                      CalculateVisible(caught, maxrow, f).s.focus
                        = CalculateVisible(Self, maxrow, f).s.focus

\* C37 (navigation never raises): in every reachable state of a ListBox over
\* a non-wrapping body in a viewport of one row or more, calculate_visible,
\* keypress with up, down, page up or page down, a mouse press on a row of
\* the viewport and set_focus with a position of the body return without an
\* exception.
C37_NavigationNeverRaises ==
  /\ \A f \in BOOLEAN : CalculateVisible(Self, maxrow, f).s.err = ""
  /\ \A key \in {"up", "down", "page up", "page down"} :
       Keypress(Self, maxrow, key, FALSE, 0).s.err = ""
  /\ \A button \in {1, 4, 5}, row \in 0..(maxrow - 1), handled \in BOOLEAN :
       (handled => button = 1)
         => MouseEvent(Self, maxrow, button, row, handled).s.err = ""
  /\ \A position \in 0..(Len(body) - 1), coming_from \in {"above", "below", "none"} :
       SetFocus(Self, position, coming_from).err = ""

\* The candidates of a page key that are selectable and have rows: indexes of t.
SelectableCandidates(t) ==
  {i \in 1..Len(t) : Selectable(t[i].pos) /\ t[i].rows > 0}

\* What 'page up' does from the state s: the candidates it gathers, what its
\* first and second for loops leave, and its result.
PageUpOutcome(s, mrow) ==
  LET cv == CalculateVisible(s, mrow, TRUE)
      c == PageUpCandidates(cv.v, mrow)
      a == PageUpSearched(cv.s, mrow, c)
  IN [key |-> "page up", cv |-> cv, t |-> c.t, a |-> a,
      b |-> PageUpFallback(a.s, mrow, c.t,
                           GoodChoices(c.search_order, a.bad_choices)
                             \o c.search_order,
                           c.snap_rows, cv.v.middle.focus_pos, a.row_offset),
      r |-> Keypress(s, mrow, "page up", FALSE, 0)]

\* The same for 'page down'.
PageDownOutcome(s, mrow) ==
  LET cv == CalculateVisible(s, mrow, TRUE)
      c == PageDownCandidates(cv.v, mrow)
      a == PageDownSearched(cv.s, mrow, c)
  IN [key |-> "page down", cv |-> cv, t |-> c.t, a |-> a,
      b |-> PageDownFallback(a.s, mrow, c.t,
                             GoodChoices(c.search_order, a.bad_choices)
                               \o c.search_order,
                             c.snap_rows, cv.v.middle.focus_pos, a.row_offset),
      r |-> Keypress(s, mrow, "page down", FALSE, 0)]

\* The outcomes of the two page keys from s, when the list has a focus.
PageOutcomes(s, mrow) ==
  LET cv == CalculateVisible(s, mrow, TRUE)
  IN IF cv.s.err # "" \/ cv.v.empty THEN {}
     ELSE {PageUpOutcome(s, mrow), PageDownOutcome(s, mrow)}

\* The outcome o of a page key ended in "no choices available, just shift
\* current one".
MerelyShifted(o) ==
  ~o.a.returned /\ ~o.a.cut_off_selectable_chosen /\ ~o.b.returned

C39_ReaderStopsAfterUnhook ==
  /\ \A t \in 1..MaxThreads :
       (t \in DOMAIN threads /\ threads[t].should_exit)
         ~> (t \in DOMAIN threads /\ threads[t].pc = "exited")
  /\ [][\A t \in 1..MaxThreads :
          (ThreadStep(t) /\ threads[t].should_exit)
            => (socket' = socket /\ resize_pipe' = resize_pipe)]_vars

\* C40 (at most one console reader per Screen): in every reachable state at
\* most one of the reader threads the Screen has started is alive, and no
\* thread that was told to exit ends with a key-down record in the batch it
\* read while a later hook_event_loop has the Screen hooked.
C40_AtMostOneReader ==
  /\ [](Cardinality({t \in DOMAIN threads : Alive(t)}) <= 1)
  /\ [][\A t \in 1..MaxThreads :
          (/\ ThreadStep(t)
           /\ threads'[t].pc = "exited"
           /\ input_thread # None /\ input_thread # t)
            => \A i \in DOMAIN threads[t].batch : threads[t].batch[i] # "key"]_vars

====
